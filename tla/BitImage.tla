------------------------------ MODULE BitImage ------------------------------
(***************************************************************************)
(* The two readers of a Xilinx .bit file: validateBitImage (fpgactl/src/   *)
(* jtag.cpp), which decides whether the JTAG loader may have it, and       *)
(* loadImage (fpgactl/src/qspi.cpp), which extracts what goes into the     *)
(* flash.  The first runs over a file, then the second.  Such a file is    *)
(* a header, a marker, four fields and a payload, each after its length.   *)
(***************************************************************************)
EXTENDS Integers, Sequences

CONSTANTS
    Radix,    \* the values of a byte: 256
    Tags,     \* the bytes "a" to "e"
    Sync,     \* the synchronization word
    Window,   \* how far into the payload loadImage looks for it: 4096
    MinSize,  \* the size loadImage asks for: 16
    SizeMax,  \* the values of a size_t: 2^64
    Images,   \* records of header, fields (four sequences of bytes) and payload
    Byte,     \* the bytes a damaged file may hold instead
    Unset

ASSUME RadixAssumption == Radix \in Nat /\ Radix > 1 /\ Byte \subseteq 0 .. Radix - 1
ASSUME TagsAssumption  ==
    Tags \in [1 .. 5 -> 0 .. Radix - 1] /\ \A j, k \in 1 .. 5 : Tags[j] = Tags[k] => j = k
ASSUME SizesAssumption == Window \in Nat /\ MinSize \in Nat /\ SizeMax \in Nat \ {0}
ASSUME UnsetAssumption == Unset \notin BOOLEAN

VARIABLES
    file,    \* the bytes of the file,
    damage,  \*   and what happened to them,
    stage,   \* the reader: what is next,
    at,      \*   and the bytes it has passed,
    field,   \* validateBitImage: the field it is at,
    read,    \*   history: the image it has read,
    valid,   \*   its verdict, or Unset
    image    \* loadImage: the payload it returns, or Unset
ivars == <<file, damage, stage, at, field, read, valid, image>>

\* Numbers of two and of four bytes, the largest first.
Big16(n) == <<n \div Radix, n % Radix>>
Big32(n) == Big16(n \div (Radix * Radix)) \o Big16(n % (Radix * Radix))

\* The file of an image, up to the fields, up to the payload, and whole.
FieldOf(tag, bytes) == <<tag>> \o Big16(Len(bytes)) \o bytes
Upto(i, n) ==
    LET start == Big16(Len(i.header)) \o i.header \o Big16(1)
        f(k) == IF k <= n THEN FieldOf(Tags[k], i.fields[k]) ELSE <<>>
    IN  start \o f(1) \o f(2) \o f(3) \o f(4)
Encode(i) == Upto(i, 4) \o <<Tags[5]>> \o Big32(Len(i.payload)) \o i.payload

\* The images that a file can hold.
IsImage(i) ==
    LET bytes == Seq(0 .. Radix - 1)
    IN  /\ i.header \in bytes /\ Len(i.header) < Radix * Radix
        /\ i.fields \in Seq(bytes) /\ Len(i.fields) = 4
        /\ \A k \in 1 .. 4 : Len(i.fields[k]) < Radix * Radix
        /\ i.payload \in bytes \ {<<>>} /\ Len(i.payload) < Radix * Radix * (Radix * Radix)
        /\ Len(Encode(i)) + 1 < SizeMax
ASSUME ImagesAssumption == \A i \in Images : IsImage(i)

\* Cut off by an interrupted upload, followed by something else, or altered.
ImageInit ==
    /\ \E i \in Images :
        \/ damage = "none" /\ file = Encode(i)
        \/ damage = "cut"  /\ file \in {SubSeq(Encode(i), 1, n) : n \in 0 .. Len(Encode(i)) - 1}
        \/ damage = "longer"  /\ file \in {Append(Encode(i), b) : b \in Byte}
        \/ damage = "altered" /\ file \in {[Encode(i) EXCEPT ![n] = b] :
                                               n \in 1 .. Len(Encode(i)), b \in Byte}
    /\ stage = "header" /\ at = 0 /\ field = 1
    /\ read = [header |-> <<>>, fields |-> <<>>, payload |-> <<>>]
    /\ valid = Unset /\ image = Unset

Readable(count) == at + count <= Len(file)
Word(place) == file[place + 1] * Radix + file[place + 2]
Value(count) == IF count = 2 THEN Word(at) ELSE Word(at) * (Radix * Radix) + Word(at + 2)
\* The bytes after the next count ones, an unsigned difference.
Left(count) == (Len(file) - (at + count)) % SizeMax
Slice(after, n) == SubSeq(file, at + after + 1, at + after + n)

-----------------------------------------------------------------------------
(* validateBitImage. *)

Verdict(v) == valid' = v /\ stage' = "loadHeader" /\ at' = 0
Fits(count) == Readable(count) /\ Value(count) <= Left(count)

Header ==
    /\ stage = "header"
    /\ IF Fits(2)
       THEN /\ stage' = "marker" /\ at' = at + 2 + Value(2) /\ valid' = valid
            /\ read' = [read EXCEPT !.header = Slice(2, Value(2))]
       ELSE Verdict(FALSE) /\ read' = read
    /\ UNCHANGED <<file, damage, field, image>>
\* Mutant: the marker is skipped.
MarkerSkipped ==
    /\ stage = "marker"
    /\ IF Readable(2) THEN stage' = "tag" /\ at' = at + 2 /\ valid' = valid ELSE Verdict(FALSE)
    /\ UNCHANGED <<file, damage, field, read, image>>
Marker ==
    /\ stage = "marker"
    /\ IF Readable(2) /\ Value(2) = 1
       THEN stage' = "tag" /\ at' = at + 2 /\ valid' = valid
       ELSE Verdict(FALSE)
    /\ UNCHANGED <<file, damage, field, read, image>>
Tag ==
    /\ stage = "tag"
    /\ IF at # Len(file) /\ file[at + 1] = Tags[field]
       THEN stage' = (IF field = 5 THEN "payload" ELSE "field") /\ at' = at + 1 /\ valid' = valid
       ELSE Verdict(FALSE)
    /\ UNCHANGED <<file, damage, field, read, image>>
Field ==
    /\ stage = "field"
    /\ IF Fits(2)
       THEN /\ stage' = "tag" /\ at' = at + 2 + Value(2) /\ valid' = valid /\ field' = field + 1
            /\ read' = [read EXCEPT !.fields = Append(@, Slice(2, Value(2)))]
       ELSE Verdict(FALSE) /\ UNCHANGED <<read, field>>
    /\ UNCHANGED <<file, damage, image>>
\* Mutant: the payload need only be there.
CompleteIfFits == Fits(4) /\ Value(4) # 0
\* The payload is there, and ends the file.
Complete == Readable(4) /\ Value(4) # 0 /\ Value(4) = Left(4)
Payload ==
    /\ stage = "payload"
    /\ Verdict(Complete)
    /\ read' = IF Complete THEN [read EXCEPT !.payload = Slice(4, Value(4))] ELSE read
    /\ UNCHANGED <<file, damage, field, image>>

-----------------------------------------------------------------------------
(* loadImage, the .bit part: no bound on the header, any field but "e" is   *)
(* metadata, and what follows the payload is ignored.                      *)

Throw == stage' = "done" /\ UNCHANGED <<at, image>>
Keep == UNCHANGED <<file, damage, field, read, valid>>

\* Mutant: the length of the header does not count itself.
LoadHeaderShort ==
    /\ stage = "loadHeader"
    /\ IF Len(file) >= MinSize /\ Readable(2)
       THEN stage' = "loadMarker" /\ at' = at + Value(2) /\ image' = image
       ELSE Throw
    /\ Keep
LoadHeader ==
    /\ stage = "loadHeader"
    /\ IF Len(file) >= MinSize /\ Readable(2)
       THEN stage' = "loadMarker" /\ at' = at + 2 + Value(2) /\ image' = image
       ELSE Throw
    /\ Keep
LoadMarker ==
    /\ stage = "loadMarker"
    /\ IF Readable(2) /\ Value(2) = 1 THEN stage' = "loadField" /\ at' = at + 2 /\ image' = image
                                         ELSE Throw
    /\ Keep
Metadata == /\ Slice(0, 1) # <<Tags[5]>> /\ at + 3 <= Len(file)
            /\ Word(at + 1) <= Left(3)
LoadField ==
    /\ stage = "loadField" /\ at < Len(file)
    /\ file[at + 1] # Tags[5]
    /\ IF Metadata
       THEN /\ stage' = stage /\ at' = at + 3 + Word(at + 1)
            /\ image' = image
       ELSE Throw
    /\ Keep
LoadTag ==
    /\ stage = "loadField" /\ at < Len(file)
    /\ file[at + 1] = Tags[5]
    /\ stage' = "loadPayload" /\ at' = at + 1 /\ image' = image
    /\ Keep
LoadEnd ==
    /\ stage = "loadField" /\ at >= Len(file)
    /\ Throw
    /\ Keep
HasSync(bytes) ==
    \E k \in 0 .. (IF Len(bytes) < Window THEN Len(bytes) ELSE Window) - Len(Sync) :
        SubSeq(bytes, k + 1, k + Len(Sync)) = Sync
LoadPayload ==
    /\ stage = "loadPayload"
    /\ IF Fits(4) /\ HasSync(Slice(4, Value(4)))
       THEN stage' = "done" /\ image' = Slice(4, Value(4)) /\ at' = at
       ELSE Throw
    /\ Keep

ImageStep == \/ Header \/ Marker \/ Tag \/ Field \/ Payload
        \/ LoadHeader \/ LoadMarker \/ LoadField \/ LoadTag \/ LoadEnd \/ LoadPayload
ImageSpec == ImageInit /\ [][ImageStep]_ivars

-----------------------------------------------------------------------------
\* "Reject incomplete uploads before the loader can touch FPGA configuration":
\* a complete file is accepted, one that is cut off anywhere or that has
\* something behind its payload is not.
UploadsAreJudged ==
    valid # Unset => /\ damage = "none" => valid
                     /\ damage \in {"cut", "longer"} => ~valid

\* What is accepted has no byte but those of the image that was read: the
\* checks of the fields leave nothing out.
AcceptedIsWhole == valid = TRUE => file = Encode(read)

\* The readers agree: a file that may go to the JTAG loader can be programmed
\* through the QSPI controller too, and with the same payload, unless it is
\* shorter than MinSize or its payload has no synchronization word: loadImage
\* refuses those, validateBitImage does not look.
ReadersAgree ==
    stage = "done" /\ valid =>
        image = IF HasSync(read.payload) /\ Len(file) >= MinSize THEN read.payload ELSE Unset

=============================================================================
