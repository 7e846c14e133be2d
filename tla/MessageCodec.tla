---------------------------- MODULE MessageCodec ----------------------------
(***************************************************************************)
(* The Python message classes of quadrotor_msgs: how a message is          *)
(* constructed, edited, serialized and deserialized, by the plain methods  *)
(* and by the ones for numpy.  The classes are generated and repeat one    *)
(* scheme: a message is a sequence of blocks, each written by one pack or  *)
(* tostring and read by one unpack, slice or frombuffer.  A class is its   *)
(* sequence of blocks (its layout); the methods are operators over it.     *)
(*                                                                         *)
(* The program runs under Python 3, where text is not bytes.  What a block *)
(* carries is one abstract value; what it is stored as (a list, a string,  *)
(* an array of numpy), how many elements it has and how many bytes it      *)
(* takes are kept, because the methods branch on them.  Frame names are    *)
(* ASCII: one byte to the character.                                       *)
(***************************************************************************)
EXTENDS Integers, Sequences, FiniteSetsExt

CONSTANTS
    MaxEdits,     \* fields assigned between construction and publication
    MaxText       \* length of frame names and of the payload of Serial

ASSUME EditsAssumption == MaxEdits \in Nat
ASSUME TextAssumption == MaxText \in Nat \ {0}

(***************************************************************************)
(* Blocks and layouts.                                                     *)
(***************************************************************************)

\* Consecutive numbers, packed by one call, `bytes' long.
Numbers(bytes) == << [kind |-> "numbers", count |-> 1, item |-> bytes] >>

\* Booleans, packed as bytes and turned back by bool().
Flags(n) == << [kind |-> "flags", count |-> n, item |-> 1] >>

\* An array of n numbers, packed from any iterable or written by tostring; an
\* array of numpy is taken to have the type the message declares (tostring writes
\* whatever type it has).
NumArray(n, bytes) == << [kind |-> "array", count |-> n, item |-> bytes] >>

\* uint8[n]: a list is packed as n bytes, anything else as an n-byte string.
Raw(n) == << [kind |-> "raw", count |-> n, item |-> 1] >>

\* A string, and uint8[]: the length, then the bytes.
Text == << [kind |-> "text", count |-> 0, item |-> 1] >>
Data == << [kind |-> "data", count |-> 0, item |-> 1] >>

\* std_msgs/Header: seq and stamp, then the frame.
Header == Numbers(12) \o Text

\* Mutant: the radio channels come last.
M_OutputData_RawLast == Header \o Numbers(131) \o Raw(8)

AuxCommand == Numbers(16) \o NumArray(2, 8) \o Flags(2)
Corrections == Numbers(8) \o NumArray(2, 8)
Gains == Numbers(32)
OutputData == Header \o Numbers(130) \o Raw(8) \o Numbers(1)
PositionCommand == Header \o Numbers(88) \o NumArray(3, 8) \o NumArray(3, 8)
PPROutputData == Header \o Numbers(106) \o NumArray(4, 2)
Serial == Header \o Numbers(2) \o Data
SO3Command ==
    Header \o Numbers(56) \o NumArray(3, 8) \o NumArray(3, 8) \o AuxCommand
StatusData == Header \o Numbers(11)
TRPYCommand == Header \o Numbers(32) \o NumArray(2, 8) \o Flags(2)

Layout ==
    [AuxCommand |-> AuxCommand, Corrections |-> Corrections, Gains |-> Gains,
     OutputData |-> OutputData, PositionCommand |-> PositionCommand,
     PPROutputData |-> PPROutputData, Serial |-> Serial,
     SO3Command |-> SO3Command, StatusData |-> StatusData,
     TRPYCommand |-> TRPYCommand]

Blocks(c) == DOMAIN Layout[c]

(***************************************************************************)
(* Fields.  A field is stored as rep, has n elements and the value v.      *)
(* "misfit" is a number that pack refuses: None, a string, an integer out  *)
(* of its range.  "list" stands for a tuple too: no method tells them      *)
(* apart.                                                                  *)
(***************************************************************************)

Garbage == 9

Default(b) ==
    CASE b.kind \in {"numbers", "flags"} -> [rep |-> "number", n |-> 1, v |-> 0]
      [] b.kind = "array" -> [rep |-> "list", n |-> b.count, v |-> 0]
      [] OTHER -> [rep |-> "str", n |-> b.count, v |-> 0]

Constructed(c) == [i \in Blocks(c) |-> Default(Layout[c][i])]

Reps(kind) ==
    CASE kind \in {"numbers", "flags"} -> {"number", "misfit"}
      [] kind = "array" -> {"list", "ndarray"}
      [] kind = "text" -> {"str", "bytes"}
      [] OTHER -> {"list", "str", "bytes"}

Counts(b) ==
    CASE b.kind \in {"numbers", "flags"} -> {1}
      [] b.kind \in {"text", "data"} -> 0 .. MaxText
      [] OTHER -> b.count - 1 .. b.count + 1

\* What a program may assign to a field.  2 is a true flag other than 1.
Assignable(b) ==
    {f \in [rep : Reps(b.kind), n : Counts(b),
            v : IF b.kind = "flags" THEN 0 .. 2 ELSE 0 .. 1] :
        f.n = 0 => f.v = 0}

(***************************************************************************)
(* Serialization.  A buffer is the set of the runs of bytes written to it, *)
(* each where it begins, and its size; a length is a run of its own.       *)
(***************************************************************************)

\* What the struct module refuses; serialize turns it into an error of genpy.
Refused(b, f) ==
    \/ f.rep = "misfit"
    \/ b.kind \in {"raw", "data"} /\ f.rep = "str"
    \/ b.kind \in {"array", "raw"} /\ f.rep # "bytes" /\ f.n # b.count

\* The exception that writing a block raises.  bytes has no encode and a list
\* no tostring; neither exception is caught.
WriteFault(mode, b, f) ==
    CASE b.kind = "text" ->
            IF f.rep = "bytes" THEN "AttributeError" ELSE "none"
      [] b.kind = "array" /\ mode = "numpy" ->
            IF f.rep = "ndarray" THEN "none" ELSE "AttributeError"
      [] OTHER ->
            IF Refused(b, f) THEN "SerializationError" ELSE "none"

Empty == [size |-> 0, runs |-> {}]

\* buff.write: one more run at the end.
Write(buffer, width, v) ==
    [size |-> buffer.size + width,
     runs |-> buffer.runs \cup {[at |-> buffer.size, width |-> width, v |-> v]}]

\* A block is written.  An n-byte string is padded or cut to its n bytes;
\* tostring writes whatever the array holds.
Written(buffer, b, f) ==
    CASE b.kind \in {"text", "data"} -> Write(Write(buffer, 4, f.n), f.n, f.v)
      [] b.kind = "raw" -> Write(buffer, b.count, IF f.n = b.count THEN f.v ELSE Garbage)
      [] b.kind = "array" -> Write(buffer, f.n * b.item, f.v)
      [] OTHER -> Write(buffer, b.count * b.item, f.v)

\* The buffer after each block.
Writes(c, o) ==
    LET after[k \in 0 .. Len(Layout[c])] ==
            IF k = 0 THEN Empty ELSE Written(after[k - 1], Layout[c][k], o[k])
    IN  after

Serialized(c, o) == Writes(c, o)[Len(Layout[c])]

\* The outcome of serialize and serialize_numpy: that of the first block that
\* cannot be written.
SerializeFault(mode, c, o) ==
    LET bad == {i \in Blocks(c) : WriteFault(mode, Layout[c][i], o[i]) # "none"}
    IN  IF bad = {} THEN "none" ELSE WriteFault(mode, Layout[c][Min(bad)], o[Min(bad)])

(***************************************************************************)
(* Deserialization.                                                        *)
(***************************************************************************)

\* What str[at:at + n] of the first `size' bytes holds: the value of a run, if
\* it is exactly that run.
Content(buffer, size, at, n) ==
    LET exact == {run \in buffer.runs : run.at = at /\ run.width = n}
    IN  IF n = 0 THEN 0
        ELSE IF at + n <= size /\ exact # {} THEN (CHOOSE run \in exact : TRUE).v
        ELSE Garbage

\* A slice never fails: it is as long as the buffer allows.
Sliced(buffer, size, at, n, rep) ==
    LET len == Min({n, Max({0, size - at})})
    IN  [rep |-> rep, n |-> len, v |-> Content(buffer, size, at, len)]

Truth(v) == IF v \in {0, Garbage} THEN v ELSE 1

\* The exception that reading a block raises when it is short: unpack raises an
\* error that becomes genpy's, frombuffer one that is not caught.
ShortFault(mode, b) ==
    IF b.kind = "array" /\ mode = "numpy" THEN "ValueError"
    ELSE "DeserializationError"

\* Mutant: flags are left as the bytes they came in.
M_ReadAs_NoBool(mode, b, v) ==
    IF b.kind = "array"
    THEN [rep |-> IF mode = "numpy" THEN "ndarray" ELSE "list", n |-> b.count, v |-> v]
    ELSE [rep |-> "number", n |-> 1, v |-> v]

\* Mutant: the method for numpy unpacks arrays as the plain one does.
M_ReadAs_AlwaysUnpack(mode, b, v) ==
    IF b.kind = "array" THEN [rep |-> "list", n |-> b.count, v |-> v]
    ELSE [rep |-> "number", n |-> 1, v |-> IF b.kind = "flags" THEN Truth(v) ELSE v]

\* What a complete block is stored as.
ReadAs(mode, b, v) ==
    CASE b.kind = "array" ->
            [rep |-> IF mode = "numpy" THEN "ndarray" ELSE "list",
             n |-> b.count, v |-> v]
      [] b.kind = "flags" -> [rep |-> "number", n |-> 1, v |-> Truth(v)]
      [] OTHER -> [rep |-> "number", n |-> 1, v |-> v]

\* The bytes that a block is read from, or its length.
Need(b) == IF b.kind \in {"text", "data"} THEN 4 ELSE b.count * b.item

\* One block read at acc.at into acc.obj[i].
Read(mode, c, buffer, size, acc, i) ==
    LET b == Layout[c][i]
        need == Need(b)
        v == Content(buffer, size, acc.at, need)
        into(f, next) ==
            [at |-> next, obj |-> [acc.obj EXCEPT ![i] = f], fault |-> "none"]
    IN  CASE acc.fault # "none" -> acc
          [] acc.fault = "none" /\ b.kind = "raw" ->
                into(Sliced(buffer, size, acc.at, need, "bytes"), acc.at + need)
          [] acc.fault = "none" /\ b.kind # "raw" /\ acc.at + need > size ->
                [acc EXCEPT !.fault = ShortFault(mode, b)]
          [] acc.fault = "none" /\ acc.at + need <= size /\ b.kind \in {"text", "data"} ->
                into(Sliced(buffer, size, acc.at + 4, v,
                            IF b.kind = "text" THEN "str" ELSE "bytes"),
                     acc.at + 4 + v)
          [] OTHER -> into(ReadAs(mode, b, v), acc.at + need)

\* Where the method is after each block, when it begins with message o: what was
\* read before an exception stays.
Reads(mode, c, buffer, size, o) ==
    LET after[k \in 0 .. Len(Layout[c])] ==
            IF k = 0 THEN [at |-> 0, obj |-> o, fault |-> "none"]
            ELSE Read(mode, c, buffer, size, after[k - 1], k)
    IN  after

\* Mutant: the fields are reset before they are read.
M_Deserialized_ResetsFirst(mode, c, buffer, size, o) ==
    Reads(mode, c, buffer, size, Constructed(c))[Len(Layout[c])]

\* deserialize and deserialize_numpy into the message o.
Deserialized(mode, c, buffer, size, o) ==
    Reads(mode, c, buffer, size, o)[Len(Layout[c])]

(***************************************************************************)
(* A program that builds messages of a class, edits, publishes and         *)
(* receives them, in any order; a received message may be published again. *)
(***************************************************************************)
VARIABLES
    class,      \* the class of the messages
    obj,        \* the message in the hands of the program
    wire,       \* the last buffer published
    source,     \* the message it was made from
    origin,     \* how obj came to be: constructed or edited, or by which method
    received,   \* what the last call read: the whole buffer, a part, or nothing
    outcome,    \* the exception of the last call
    edits       \* fields assigned so far

vars == <<class, obj, wire, source, origin, received, outcome, edits>>

Modes == {"plain", "numpy"}

Init ==
    /\ class \in DOMAIN Layout
    /\ obj = Constructed(class)
    /\ source = Constructed(class)
    /\ wire = Empty
    /\ origin = "made"
    /\ received = "none"
    /\ outcome = "none"
    /\ edits = 0

Assign ==
    /\ edits < MaxEdits
    /\ \E i \in Blocks(class) : \E f \in Assignable(Layout[class][i]) :
        obj' = [obj EXCEPT ![i] = f]
    /\ edits' = edits + 1
    /\ origin' = "made"
    /\ received' = "none"
    /\ outcome' = "none"
    /\ UNCHANGED <<class, wire, source>>

\* When the method raises an exception nothing is published.
Publish(mode) ==
    /\ outcome' = SerializeFault(mode, class, obj)
    /\ IF outcome' = "none"
       THEN wire' = Serialized(class, obj) /\ source' = obj
       ELSE UNCHANGED <<wire, source>>
    /\ received' = "none"
    /\ UNCHANGED <<class, obj, origin, edits>>

\* How much of the buffer arrives: all of it, or up to the end of a run or one
\* byte less.
Sizes ==
    LET ends == {run.at + run.width : run \in wire.runs}
    IN  {0} \cup ends \cup {e - 1 : e \in ends \ {0}}

Receive(mode, size) ==
    LET result == Deserialized(mode, class, wire, size, obj)
    IN  /\ obj' = result.obj
        /\ outcome' = result.fault
        /\ origin' = mode
        /\ received' = IF size = wire.size THEN "whole" ELSE "cut"
        /\ UNCHANGED <<class, wire, source, edits>>

Next ==
    \/ Assign
    \/ \E mode \in Modes : Publish(mode)
    \/ wire # Empty /\ \E mode \in Modes, size \in Sizes : Receive(mode, size)

Spec == Init /\ [][Next]_vars

(***************************************************************************)
(* Properties.                                                             *)
(***************************************************************************)

\* The arrays of fixed size have that size.
Proper(c, o) ==
    \A i \in Blocks(c) :
        Layout[c][i].kind \in {"array", "raw"} => o[i].n = Layout[c][i].count

Sliceable(b) == b.kind \in {"text", "raw", "data"}

\* Field g carries what f meant: as many elements, the same value, flags as
\* truth values; how it is stored may differ.
SameField(b, f, g) ==
    /\ g.n = f.n
    /\ g.v = IF b.kind = "flags" THEN Truth(f.v) ELSE f.v

\* A message whose arrays have their declared sizes, once published by either
\* method, is read without exception by either method and means the same,
\* however often it has been relayed, edited and read before (serialize and
\* deserialize, plain and numpy, of every class).
ArrivesAsSent ==
    received = "whole" /\ Proper(class, source) =>
        /\ outcome = "none"
        /\ \A i \in Blocks(class) : SameField(Layout[class][i], source[i], obj[i])

\* A buffer that ends early is noticed: reading it without exception can only
\* shorten the payload of Serial, the one slice nothing is read behind
\* (_Serial.py:150-154); every other field is as sent.
NoticesShort ==
    received = "cut" /\ outcome = "none" /\ Proper(class, source) =>
        /\ class = "Serial"
        /\ \A i \in Blocks(class) :
            \/ SameField(Layout[class][i], source[i], obj[i])
            \/ i = Len(Layout[class]) /\ obj[i].n < source[i].n

\* What has been received can be published again: by the plain method always,
\* by the one for numpy exactly if it was read by the one for numpy or has no
\* array (tostring at _AuxCommand.py:110 and its like).
ForwardsWhatItReceived ==
    origin # "made" /\ received # "none" /\ outcome = "none" =>
        \A mode \in Modes :
            SerializeFault(mode, class, obj) = "none" <=>
                \/ mode = "plain"
                \/ origin = "numpy"
                \/ \A i \in Blocks(class) : Layout[class][i].kind # "array"

\* An exception while reading leaves the blocks before the one that failed as
\* they were sent, slices perhaps short, and the others as they were: never a
\* field of the new message behind one of the old.
TornIsPrefix ==
    [][outcome' # "none" /\ obj' # obj /\ Proper(class, source) =>
        \E k \in Blocks(class) : \A i \in Blocks(class) :
            IF i >= k THEN obj'[i] = obj[i]
            ELSE \/ SameField(Layout[class][i], source[i], obj'[i])
                 \/ Sliceable(Layout[class][i]) /\ obj'[i].n < source[i].n]_vars
=============================================================================
