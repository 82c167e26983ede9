SPECIFICATION Spec
CONSTANTS
    Addresses = {0, 256, 300, 33554432}
    Vacancy = 9
    Depths = {8, 9, 10}
PROPERTIES PacketIsWhole BootsWhereAsked
