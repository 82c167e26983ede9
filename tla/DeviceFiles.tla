---------------------------- MODULE DeviceFiles ----------------------------
(***************************************************************************)
(* Who owns the device files (XDMAUser, XDMAStream: dev/src/xdma.cpp): the *)
(* constructors that open them one by one, the moves, closeStreams and the *)
(* destructors, called one at a time, one action per system call, in a     *)
(* process whose other code opens and closes descriptors of its own.  The  *)
(* kernel gives out the lowest number that is free.                        *)
(***************************************************************************)
EXTENDS Integers

CONSTANTS
    Streams,   \* XDMAStream objects
    Users,     \* XDMAUser objects
    Fds        \* bound: the descriptor numbers of the process

ASSUME ObjectsAssumption == Streams \cap Users = {}
ASSUME FdsAssumption == Fds \subseteq Nat

VARIABLES
    table,         \* the descriptor table: "free", "ours" or "other"
    fd,            \* the members fd_h2c_ and fd_c2h_, or fd_, of each object
    live,          \* the objects that exist
    stage, self,      \* the call: where it is, and its object,
    wanted,        \*   the files a constructor has yet to open,
    source,        \*   the object a move takes from,
    after          \*   what follows the closing
call == <<stage, self, wanted, source, after>>
fvars == <<table, fd, live, call>>

Objects == Streams \cup Users
Closed == -1
Parts(o) == IF o \in Streams THEN {"h2c", "c2h"} ELSE {"user"}
None(o) == [c \in Parts(o) |-> Closed]
AreAlike(o, p) == Parts(o) = Parts(p)

FilesInit ==
    /\ table \in [Fds -> {"free", "other"}]
    /\ fd = [o \in Objects |-> None(o)]
    /\ live = {}
    /\ stage = "idle" /\ self \in Objects /\ source = self /\ wanted = {} /\ after = "keep"

-----------------------------------------------------------------------------
(* The calls. *)

Begin(o, from, todo, then, files) ==
    /\ stage = "idle"
    /\ self' = o /\ source' = from
    /\ stage' = todo /\ after' = then /\ wanted' = files
    /\ UNCHANGED <<table, live>>

\* A stream without a channel is asked for with -1 twice.
Construct(o, files) ==
    /\ o \notin live /\ (o \in Users => files = {"user"})
    /\ Begin(o, o, IF files = {} THEN "made" ELSE "open", "throw", files)
    /\ fd' = [fd EXCEPT ![o] = None(o)]
CloseStreams(o) == o \in live \cap Streams /\ Begin(o, o, "close", "keep", {}) /\ fd' = fd
Destroy(o) == o \in live /\ Begin(o, o, "close", "destroy", {}) /\ fd' = fd
MoveConstruct(o, from) ==
    /\ o \notin live /\ from \in live /\ AreAlike(o, from)
    /\ Begin(o, from, "exchange", "move", {})
    /\ fd' = [fd EXCEPT ![o] = None(o)]
\* Assigning an object to itself does nothing.
MoveAssign(o, from) ==
    /\ {o, from} \subseteq live /\ o # from /\ AreAlike(o, from)
    /\ Begin(o, from, "close", "move", {})
    /\ fd' = fd

EndCall == stage' = "idle" /\ UNCHANGED <<self, wanted, source, after>>

\* ::open gives the lowest number; the H2C channel comes first.
Lowest(f) == table[f] = "free" /\ \A g \in Fds : table[g] = "free" => f <= g
NextFile == IF "h2c" \in wanted THEN "h2c" ELSE CHOOSE c \in wanted : TRUE
Open ==
    /\ stage = "open"
    /\ \E f \in Fds :
        /\ Lowest(f)
        /\ table' = [table EXCEPT ![f] = "ours"]
        /\ fd' = [fd EXCEPT ![self][NextFile] = f]
    /\ wanted' = wanted \ {NextFile}
    /\ stage' = IF wanted' = {} THEN "made" ELSE "open"
    /\ UNCHANGED <<live, self, source, after>>
Made ==
    /\ stage = "made"
    /\ live' = live \cup {self}
    /\ EndCall
    /\ UNCHANGED <<table, fd>>
\* The constructor throws; its object has no destructor.  A stream whose
\* second file cannot be opened closes the first one itself.
\* Mutant: it just throws.
OpenFailsBare ==
    /\ stage = "open"
    /\ EndCall
    /\ UNCHANGED <<table, fd, live>>
OpenFails ==
    /\ stage = "open"
    /\ IF NextFile = "c2h"
       THEN stage' = "close" /\ UNCHANGED <<self, wanted, source, after>>
       ELSE EndCall
    /\ UNCHANGED <<table, fd, live>>

\* closeStreams, close: each open file once.
ToClose == {c \in Parts(self) : fd[self][c] # Closed}
Close ==
    /\ stage = "close" /\ ToClose # {}
    /\ LET c == IF "h2c" \in ToClose THEN "h2c" ELSE CHOOSE x \in ToClose : TRUE
       IN  /\ table' = [table EXCEPT ![fd[self][c]] = "free"]
           /\ fd' = [fd EXCEPT ![self][c] = Closed]
    /\ UNCHANGED <<live, call>>
AllClosed ==
    /\ stage = "close" /\ ToClose = {}
    /\ stage' = "closed"
    /\ UNCHANGED <<table, fd, live, self, wanted, source, after>>
Closing ==
    /\ stage = "closed"
    /\ live' = IF after = "destroy" THEN live \ {self} ELSE live
    /\ IF after = "move" THEN stage' = "exchange" /\ UNCHANGED <<self, wanted, source, after>>
                         ELSE EndCall
    /\ UNCHANGED <<table, fd>>
\* std::exchange(other.fd, -1).
\* Mutant: the other keeps it.
ExchangeCopies ==
    /\ stage = "exchange"
    /\ fd' = [fd EXCEPT ![self] = fd[source]]
    /\ live' = live \cup {self}
    /\ EndCall
    /\ UNCHANGED table
Exchange ==
    /\ stage = "exchange"
    /\ fd' = [fd EXCEPT ![self] = fd[source], ![source] = None(source)]
    /\ live' = live \cup {self}
    /\ EndCall
    /\ UNCHANGED table

\* The rest of the process.
OtherOpens(f) ==
    /\ Lowest(f)
    /\ table' = [table EXCEPT ![f] = "other"]
    /\ UNCHANGED <<fd, live, call>>
OtherCloses(f) ==
    /\ table[f] = "other"
    /\ table' = [table EXCEPT ![f] = "free"]
    /\ UNCHANGED <<fd, live, call>>

Step == Open \/ Made \/ OpenFails \/ Close \/ AllClosed \/ Closing \/ Exchange
Calls ==
    \E o \in Objects :
        \/ \E files \in SUBSET Parts(o) : Construct(o, files)
        \/ CloseStreams(o) \/ Destroy(o)
        \/ \E from \in Objects : MoveConstruct(o, from) \/ MoveAssign(o, from)
Others == \E f \in Fds : OtherOpens(f) \/ OtherCloses(f)
FilesNext == Step \/ Calls \/ Others
FilesSpec == FilesInit /\ [][FilesNext]_fvars

-----------------------------------------------------------------------------
FilesTypeOK ==
    /\ table \in [Fds -> {"free", "ours", "other"}]
    /\ \A o \in Objects : fd[o] \in [Parts(o) -> Fds \cup {Closed}]
    /\ DOMAIN fd = Objects
    /\ live \subseteq Objects /\ self \in Objects /\ source \in Objects
    /\ stage \in {"idle", "open", "made", "close", "closed", "exchange"}
    /\ wanted \subseteq Parts(self)
    /\ after \in {"keep", "throw", "destroy", "move"}

\* dev/include/mrs_fpga_dev/xdma.h: the objects own their descriptors and may
\* be moved safely.  An open member is a file of ours, no two members are the
\* same file, and when no call is under way each such file belongs to an
\* object that will close it: none leaks when an open fails, an object is
\* moved, assigned over, closed or destroyed.
OneOwner ==
    /\ \A o \in Objects : \A c \in Parts(o) : fd[o][c] # Closed =>
         /\ table[fd[o][c]] = "ours"
         /\ \A p \in Objects : \A d \in Parts(p) :
                fd[p][d] = fd[o][c] => <<p, d>> = <<o, c>>
    /\ stage = "idle" =>
         \A f \in Fds : table[f] = "ours" =>
             \E o \in live : \E c \in Parts(o) : fd[o][c] = f

\* Closing twice, as closeStreams allows, or after a move never closes a file
\* that the rest of the process has opened under a number of ours.
OthersKeepTheirs ==
    [][\A f \in Fds : table[f] = "other" /\ table'[f] # "other" => OtherCloses(f)]_fvars
=============================================================================
