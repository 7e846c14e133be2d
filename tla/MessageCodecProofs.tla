------------------------- MODULE MessageCodecProofs -------------------------
(***************************************************************************)
(* What the generated classes read is what they wrote, for every number of *)
(* edits and every length of text.                                         *)
(*                                                                         *)
(* Both methods go through the blocks of a class, so what they do to a     *)
(* message is a function defined by recursion, and what is said of it is   *)
(* proved by induction over the blocks.  The principle used is that of a   *)
(* set of numbers with 0 and the next of each (BlockInduction), which      *)
(* follows from the well-foundedness of the natural numbers.               *)
(***************************************************************************)
EXTENDS MessageCodec, SequenceTheorems, WellFoundedInduction, TLAPS

-----------------------------------------------------------------------------
(* Induction over the blocks of a class.                                   *)

\* A non-empty set of naturals has a least element.
LEMMA LeastOf ==
    ASSUME NEW T, T \subseteq Nat, T # {}
    PROVE  \E n \in T : \A m \in T : n <= m
  <1> DEFINE Before == {pair \in Nat \X Nat : pair[1] < pair[2]}
  <1>1. IsWellFoundedOn(Before, Nat)
    BY NatLessThanWellFounded DEF OpToRel
  <1>2. PICK n \in T : \A m \in T : <<m, n>> \notin Before
    <2>. HIDE DEF Before
    <2>. QED  BY <1>1, WFMin
  <1>3. \A m \in T : ~(m < n)
    BY <1>2
  <1>. QED  BY <1>3

\* A set that holds 0, and with each number up to n the next one, holds all of
\* them up to n.
LEMMA BlockInduction ==
    ASSUME NEW n \in Nat, NEW T, 0 \in T,
           \A k \in 0 .. n - 1 : k \in T => k + 1 \in T
    PROVE  0 .. n \subseteq T
  <1> DEFINE Out == (0 .. n) \ T
  <1>. SUFFICES ASSUME Out # {} PROVE FALSE
    OBVIOUS
  <1>1. PICK k \in Out : \A m \in Out : k <= m
    <2>1. Out \subseteq Nat
      OBVIOUS
    <2>. HIDE DEF Out
    <2>. QED  BY <2>1, LeastOf
  <1>2. k \in 1 .. n /\ k \notin T
    BY <1>1
  <1>3. k - 1 \in 0 .. n - 1 /\ k - 1 \notin Out
    BY <1>1, <1>2
  <1>4. k - 1 \in T
    BY <1>3
  <1>. QED  BY <1>2, <1>3, <1>4

-----------------------------------------------------------------------------
(* Layouts.                                                                *)

BlockKinds == {"numbers", "flags", "array", "raw", "text", "data"}

\* A block that is not preceded by its length has at least one byte.
Block ==
    {b \in [kind : BlockKinds, count : Nat, item : Nat \ {0}] :
        /\ b.kind \notin {"text", "data"} => b.count > 0
        /\ b.kind = "raw" => b.item = 1}

\* A class ends with a block that is read whole or, in Serial, with its payload.
Ended(layout, kinds) == layout # <<>> /\ layout[Len(layout)].kind \in kinds

Whole == {"numbers", "flags", "array"}

Layouts == Seq(Block)
WholeLayouts == {s \in Layouts : Ended(s, Whole)}
DataLayouts == {s \in Layouts : Ended(s, {"data"})}

\* The parts of the layouts.
LEMMA BlockLayouts ==
    /\ \A n \in Nat \ {0} : Numbers(n) \in WholeLayouts /\ Flags(n) \in WholeLayouts
    /\ \A n, m \in Nat \ {0} : NumArray(n, m) \in WholeLayouts
    /\ \A n \in Nat \ {0} : Raw(n) \in Layouts
    /\ Text \in Layouts
    /\ Data \in DataLayouts
  BY DEF Numbers, Flags, NumArray, Raw, Text, Data, Block, BlockKinds, Ended, Whole,
         Layouts, WholeLayouts, DataLayouts

\* Layouts are put together, and the last block of the last one is the last.
LEMMA LayoutsConcat ==
    /\ \A s, t \in Layouts : s \o t \in Layouts
    /\ \A s \in Layouts, t \in WholeLayouts : s \o t \in WholeLayouts
    /\ \A s \in Layouts, t \in DataLayouts : s \o t \in DataLayouts
    /\ WholeLayouts \subseteq Layouts /\ DataLayouts \subseteq Layouts
  <1>1. ASSUME NEW s \in Layouts, NEW t \in Layouts
        PROVE  /\ s \o t \in Layouts
               /\ t # <<>> => s \o t # <<>> /\ (s \o t)[Len(s \o t)] = t[Len(t)]
    <2>1. /\ s \o t \in Seq(Block) /\ Len(s \o t) = Len(s) + Len(t)
          /\ \A i \in 1 .. Len(s) + Len(t) :
                (s \o t)[i] = IF i <= Len(s) THEN s[i] ELSE t[i - Len(s)]
      BY <1>1, ConcatProperties DEF Layouts
    <2>2. Len(s) \in Nat /\ Len(t) \in Nat /\ (t # <<>> => Len(t) > 0)
      BY <1>1, LenProperties, EmptySeq DEF Layouts
    <2>3. ASSUME t # <<>> PROVE s \o t # <<>> /\ (s \o t)[Len(s \o t)] = t[Len(t)]
      <3>1. (s \o t)[Len(s) + Len(t)] = t[Len(s) + Len(t) - Len(s)]
        BY <2>1, <2>2, <2>3
      <3>2. Len(s) + Len(t) - Len(s) = Len(t) /\ Len(s \o t) # 0
        BY <2>1, <2>2, <2>3
      <3>3. s \o t # <<>>
        BY <3>2, EmptySeq
      <3>. QED  BY <2>1, <3>1, <3>2, <3>3
    <2>. QED  BY <2>1, <2>3 DEF Layouts
  <1>. QED  BY <1>1, Zenon DEF WholeLayouts, DataLayouts, Ended

\* Every class is a sequence of blocks; only Serial does not end with one that
\* is read whole.
LEMMA LayoutShape ==
    ASSUME NEW c \in DOMAIN Layout
    PROVE  Layout[c] \in IF c = "Serial" THEN DataLayouts ELSE WholeLayouts
  <1>1. /\ \A n \in {1, 2, 8, 11, 12, 16, 32, 56, 88, 106, 130} :
              Numbers(n) \in WholeLayouts
        /\ Flags(2) \in WholeLayouts /\ Raw(8) \in Layouts
        /\ \A n \in {2, 3, 4}, m \in {2, 8} : NumArray(n, m) \in WholeLayouts
    BY BlockLayouts
  <1>2. Header \in Layouts
    BY <1>1, BlockLayouts, LayoutsConcat, Zenon DEF Header
  <1>3. AuxCommand \in WholeLayouts
    BY <1>1, LayoutsConcat, Zenon DEF AuxCommand
  <1>4. Corrections \in WholeLayouts /\ Gains \in WholeLayouts
    BY <1>1, LayoutsConcat, Zenon DEF Corrections, Gains
  <1>5. OutputData \in WholeLayouts
    BY <1>1, <1>2, LayoutsConcat, Zenon DEF OutputData
  <1>6. PositionCommand \in WholeLayouts
    BY <1>1, <1>2, LayoutsConcat, Zenon DEF PositionCommand
  <1>7. PPROutputData \in WholeLayouts
    BY <1>1, <1>2, LayoutsConcat, Zenon DEF PPROutputData
  <1>8. Serial \in DataLayouts
    BY <1>1, <1>2, BlockLayouts, LayoutsConcat, Zenon DEF Serial
  <1>9. SO3Command \in WholeLayouts
    BY <1>1, <1>2, <1>3, LayoutsConcat, Zenon DEF SO3Command
  <1>10. StatusData \in WholeLayouts
    BY <1>1, <1>2, LayoutsConcat, Zenon DEF StatusData
  <1>11. TRPYCommand \in WholeLayouts
    BY <1>1, <1>2, LayoutsConcat, Zenon DEF TRPYCommand
  <1>. QED
    BY <1>3, <1>4, <1>5, <1>6, <1>7, <1>8, <1>9, <1>10, <1>11 DEF Layout

\* The blocks of a class are numbered from 1.
LEMMA BlocksOf ==
    ASSUME NEW c \in DOMAIN Layout
    PROVE  /\ Len(Layout[c]) \in Nat \ {0} /\ Blocks(c) = 1 .. Len(Layout[c])
           /\ \A i \in Blocks(c) : Layout[c][i] \in Block
  <1>1. Layout[c] \in Seq(Block) /\ Layout[c] # <<>>
    BY LayoutShape DEF Ended, Layouts, WholeLayouts, DataLayouts
  <1>. QED  BY <1>1, LenProperties, EmptySeq, ElementOfSeq DEF Blocks

-----------------------------------------------------------------------------
(* Buffers.                                                                *)

StoredAs == {"number", "misfit", "list", "ndarray", "str", "bytes"}

\* What a block may be stored as at any time: a number is one, and nothing is
\* known of what is missing.
Field(b) ==
    {f \in [rep : StoredAs, n : Nat, v : Nat] :
        /\ b.kind \in {"numbers", "flags"} => f.n = 1
        /\ b.kind \in {"text", "data"} /\ f.n = 0 => f.v = 0}

Buffer == [size : Nat, runs : SUBSET [at : Nat, width : Nat, v : Nat]]

\* Runs end where the buffer does, at the latest, and those that have a byte
\* begin at different ones.
Tiled(buffer) ==
    /\ buffer \in Buffer
    /\ \A run \in buffer.runs : run.at + run.width <= buffer.size
    /\ \A run, other \in buffer.runs :
          run.at = other.at /\ run.width > 0 /\ other.width > 0 => run = other

HasRun(buffer, at, width, v) == [at |-> at, width |-> width, v |-> v] \in buffer.runs

\* One more run leaves those before it where they are.
LEMMA WriteTiles ==
    ASSUME NEW buffer, Tiled(buffer), NEW width \in Nat, NEW v \in Nat
    PROVE  /\ Tiled(Write(buffer, width, v))
           /\ Write(buffer, width, v).size = buffer.size + width
           /\ buffer.runs \subseteq Write(buffer, width, v).runs
           /\ HasRun(Write(buffer, width, v), buffer.size, width, v)
  <1> DEFINE new == [at |-> buffer.size, width |-> width, v |-> v]
             next == Write(buffer, width, v)
  <1>1. buffer.size \in Nat /\ buffer.runs \subseteq [at : Nat, width : Nat, v : Nat]
    BY DEF Tiled, Buffer
  <1>2. next.size = buffer.size + width /\ next.runs = buffer.runs \cup {new}
    BY DEF Write
  <1>3. next \in Buffer
    BY <1>1 DEF Write, Buffer
  <1>4. new.at = buffer.size /\ new.width = width
    OBVIOUS
  <1>5. ASSUME NEW run \in next.runs PROVE run.at + run.width <= next.size
    <2>1. CASE run \in buffer.runs
      <3>1. run.at \in Nat /\ run.width \in Nat /\ run.at + run.width <= buffer.size
        BY <1>1, <2>1 DEF Tiled
      <3>. QED  BY <1>1, <1>2, <3>1
    <2>. QED  BY <1>1, <1>2, <1>4, <1>5, <2>1
  <1>6. \A run \in buffer.runs : run.width > 0 => run.at # new.at
    <2>. SUFFICES ASSUME NEW run \in buffer.runs, run.width > 0 PROVE run.at # new.at
      OBVIOUS
    <2>1. run.at \in Nat /\ run.width \in Nat /\ run.at + run.width <= buffer.size
      BY <1>1 DEF Tiled
    <2>. QED  BY <1>1, <1>4, <2>1
  <1>7. ASSUME NEW run \in next.runs, NEW other \in next.runs,
               run.at = other.at, run.width > 0, other.width > 0
        PROVE  run = other
    <2>. HIDE DEF new, next
    <2>. QED  BY <1>2, <1>6, <1>7 DEF Tiled
  <1>. QED  BY <1>2, <1>3, <1>5, <1>7 DEF Tiled, HasRun

\* Where a run is, its value is read, if the buffer has not ended by then.
LEMMA ContentOfRun ==
    ASSUME NEW buffer, Tiled(buffer), NEW size \in Nat, NEW at \in Nat, NEW n \in Nat,
           NEW v \in Nat, HasRun(buffer, at, n, v), at + n <= size, n = 0 => v = 0
    PROVE  Content(buffer, size, at, n) = v
  <1> DEFINE run == [at |-> at, width |-> n, v |-> v]
             exact == {r \in buffer.runs : r.at = at /\ r.width = n}
  <1>1. run \in exact
    BY DEF HasRun
  <1>2. CASE n # 0
    <2>1. \A r \in exact : r = run
      <3>. SUFFICES ASSUME NEW r \in exact PROVE r = run
        OBVIOUS
      <3>1. run \in buffer.runs /\ run.at = at /\ run.width = n /\ n > 0
        BY <1>1, <1>2
      <3>2. r \in buffer.runs /\ r.at = at /\ r.width = n
        OBVIOUS
      <3>. HIDE DEF run, exact
      <3>. QED  BY <3>1, <3>2 DEF Tiled
    <2>2. (CHOOSE r \in exact : TRUE) = run
      <3>. HIDE DEF run, exact
      <3>. QED  BY <1>1, <2>1
    <2>3. Content(buffer, size, at, n) = (CHOOSE r \in exact : TRUE).v
      BY <1>1, <1>2 DEF Content
    <2>4. run.v = v
      OBVIOUS
    <2>. HIDE DEF run, exact
    <2>. QED  BY <2>2, <2>3, <2>4
  <1>3. CASE n = 0
    BY <1>3 DEF Content
  <1>. QED  BY <1>2, <1>3

\* Whatever is read somewhere is a value, and nothing is 0.
LEMMA ContentType ==
    ASSUME NEW buffer, Tiled(buffer), NEW size, NEW at, NEW n
    PROVE  Content(buffer, size, at, n) \in Nat /\ Content(buffer, size, at, 0) = 0
  <1> DEFINE exact == {r \in buffer.runs : r.at = at /\ r.width = n}
  <1>1. exact # {} => (CHOOSE r \in exact : TRUE) \in exact
    OBVIOUS
  <1>2. exact # {} => (CHOOSE r \in exact : TRUE).v \in Nat
    <2>1. \A r \in exact : r.v \in Nat
      BY DEF Tiled, Buffer
    <2>. HIDE DEF exact
    <2>. QED  BY <1>1, <2>1
  <1>. QED  BY <1>2 DEF Content, Garbage

-----------------------------------------------------------------------------
(* Blocks, written and read.                                               *)

ProperField(b, f) == b.kind \in {"array", "raw"} => f.n = b.count

Width(b, f) == IF b.kind \in {"text", "data"} THEN 4 + f.n ELSE b.count * b.item

\* The runs of a block that begins at `at'.
Holds(buffer, at, b, f) ==
    IF b.kind \in {"text", "data"}
    THEN HasRun(buffer, at, 4, f.n) /\ HasRun(buffer, at + 4, f.n, f.v)
    ELSE HasRun(buffer, at, Need(b), f.v)

\* A block has a byte.
LEMMA NeedIsPositive == ASSUME NEW b \in Block PROVE Need(b) \in Nat \ {0}
  <1>1. \A n, m \in Nat \ {0} : n * m \in Nat \ {0}
    <2>. SUFFICES ASSUME NEW n \in Nat \ {0}, NEW m \in Nat \ {0} PROVE n * m \in Nat \ {0}
      OBVIOUS
    <2>. QED  OBVIOUS
  <1>. QED  BY <1>1 DEF Need, Block

\* A block is written behind the others, at the length it is read with if it
\* has the size of its type.
LEMMA BlockWritten ==
    ASSUME NEW buffer, Tiled(buffer), NEW b \in Block, NEW f \in Field(b)
    PROVE  /\ Tiled(Written(buffer, b, f))
           /\ buffer.runs \subseteq Written(buffer, b, f).runs
           /\ ProperField(b, f) =>
                /\ Written(buffer, b, f).size = buffer.size + Width(b, f)
                /\ Holds(Written(buffer, b, f), buffer.size, b, f)
  <1>1. f.n \in Nat /\ f.v \in Nat /\ buffer.size \in Nat /\ Garbage \in Nat
    BY DEF Field, Tiled, Buffer, Garbage
  <1>2. CASE b.kind \in {"text", "data"}
    <2> DEFINE first == Write(buffer, 4, f.n)
    <2>1. /\ Tiled(first) /\ first.size = buffer.size + 4
          /\ buffer.runs \subseteq first.runs /\ HasRun(first, buffer.size, 4, f.n)
      BY <1>1, WriteTiles
    <2>2. Written(buffer, b, f) = Write(first, f.n, f.v)
      BY <1>2 DEF Written
    <2>. HIDE DEF first
    <2>3. /\ Tiled(Write(first, f.n, f.v)) /\ Write(first, f.n, f.v).size = first.size + f.n
          /\ first.runs \subseteq Write(first, f.n, f.v).runs
          /\ HasRun(Write(first, f.n, f.v), first.size, f.n, f.v)
      BY <1>1, <2>1, WriteTiles
    <2>4. first.size + f.n = buffer.size + (4 + f.n)
      BY <1>1, <2>1
    <2>. QED  BY <1>2, <2>1, <2>2, <2>3, <2>4 DEF Holds, Width, HasRun
  <1>3. ASSUME NEW width \in Nat, NEW v \in Nat, b.kind \notin {"text", "data"},
               Written(buffer, b, f) = Write(buffer, width, v),
               ProperField(b, f) => width = Need(b) /\ v = f.v
        PROVE  /\ Tiled(Written(buffer, b, f))
               /\ buffer.runs \subseteq Written(buffer, b, f).runs
               /\ ProperField(b, f) =>
                    /\ Written(buffer, b, f).size = buffer.size + Width(b, f)
                    /\ Holds(Written(buffer, b, f), buffer.size, b, f)
    <2>1. /\ Tiled(Write(buffer, width, v))
          /\ Write(buffer, width, v).size = buffer.size + width
          /\ buffer.runs \subseteq Write(buffer, width, v).runs
          /\ HasRun(Write(buffer, width, v), buffer.size, width, v)
      BY WriteTiles
    <2>2. Width(b, f) = Need(b)
      BY <1>3 DEF Width, Need
    <2>. QED  BY <1>3, <2>1, <2>2 DEF Holds
  <1>4. \A n, m \in Nat : n * m \in Nat
    OBVIOUS
  <1>5. b.count \in Nat /\ b.item \in Nat
    BY DEF Block
  <1>6. CASE b.kind = "raw"
    <2> DEFINE v == IF f.n = b.count THEN f.v ELSE Garbage
    <2>1. Written(buffer, b, f) = Write(buffer, b.count, v) /\ v \in Nat
      BY <1>1, <1>6 DEF Written
    <2>2. Need(b) = b.count
      BY <1>5, <1>6 DEF Need, Block
    <2>. QED  BY <1>3, <1>5, <1>6, <2>1, <2>2 DEF ProperField
  <1>7. CASE b.kind = "array"
    <2>1. Written(buffer, b, f) = Write(buffer, f.n * b.item, f.v)
      BY <1>7 DEF Written
    <2>2. f.n * b.item \in Nat
      BY <1>1, <1>4, <1>5
    <2>3. ProperField(b, f) => f.n * b.item = Need(b)
      BY <1>7 DEF ProperField, Need
    <2>. QED  BY <1>1, <1>3, <1>7, <2>1, <2>2, <2>3
  <1>8. CASE b.kind \in {"numbers", "flags"}
    <2>1. Written(buffer, b, f) = Write(buffer, b.count * b.item, f.v)
      BY <1>8 DEF Written
    <2>2. b.count * b.item \in Nat /\ b.count * b.item = Need(b)
      BY <1>4, <1>5, <1>8 DEF Need
    <2>. QED  BY <1>1, <1>3, <1>8, <2>1, <2>2
  <1>9. b.kind \in BlockKinds
    BY DEF Block
  <1>. QED  BY <1>2, <1>6, <1>7, <1>8, <1>9 DEF BlockKinds

\* The least and the greatest of two numbers.
LEMMA MinMaxOfTwo ==
    ASSUME NEW x \in Int, NEW y \in Int
    PROVE  /\ Min({x, y}) = IF x <= y THEN x ELSE y
           /\ Max({x, y}) = IF x <= y THEN y ELSE x
  <1>1. \A m \in {x, y} : (\A z \in {x, y} : m <= z) => m = IF x <= y THEN x ELSE y
    OBVIOUS
  <1>2. \A m \in {x, y} : (\A z \in {x, y} : m >= z) => m = IF x <= y THEN y ELSE x
    OBVIOUS
  <1>3. \E m \in {x, y} : \A z \in {x, y} : m <= z
    OBVIOUS
  <1>4. \E m \in {x, y} : \A z \in {x, y} : m >= z
    OBVIOUS
  <1>5. Min({x, y}) \in {x, y} /\ \A z \in {x, y} : Min({x, y}) <= z
    BY <1>3, Zenon DEF Min
  <1>6. Max({x, y}) \in {x, y} /\ \A z \in {x, y} : Max({x, y}) >= z
    BY <1>4, Zenon DEF Max
  <1>. QED  BY <1>1, <1>2, <1>5, <1>6

\* A slice has all there is, up to n bytes.
LEMMA SliceIs ==
    ASSUME NEW buffer, Tiled(buffer), NEW size \in Nat, NEW at \in Nat, NEW n \in Nat,
           NEW rep
    PROVE  \E len \in 0 .. n :
             /\ at + n <= size => len = n
             /\ at + n > size /\ n > 0 => len < n
             /\ Sliced(buffer, size, at, n, rep)
                  = [rep |-> rep, n |-> len, v |-> Content(buffer, size, at, len)]
  <1>1. size - at \in Int /\ 0 \in Int /\ n \in Int
    OBVIOUS
  <1>2. Max({0, size - at}) = IF 0 <= size - at THEN size - at ELSE 0
    BY <1>1, MinMaxOfTwo
  <1> DEFINE rest == Max({0, size - at})
             len == Min({n, rest})
  <1>3. rest \in Nat /\ rest = IF 0 <= size - at THEN size - at ELSE 0
    BY <1>2
  <1>4. len = IF n <= rest THEN n ELSE rest
    <2>. HIDE DEF rest
    <2>. QED  BY <1>3, MinMaxOfTwo
  <1>5. Sliced(buffer, size, at, n, rep)
          = [rep |-> rep, n |-> len, v |-> Content(buffer, size, at, len)]
    BY DEF Sliced
  <1>. HIDE DEF rest, len
  <1>6. len \in 0 .. n /\ (at + n <= size => len = n) /\ (at + n > size /\ n > 0 => len < n)
    BY <1>3, <1>4
  <1>. QED  BY <1>5, <1>6

\* What is stored in a block that has been read.
ReadBack(mode, b, g) ==
    CASE b.kind = "array" -> /\ g.n = b.count
                             /\ g.rep = IF mode = "numpy" THEN "ndarray" ELSE "list"
      [] b.kind \in {"numbers", "flags"} -> g.rep = "number"
      [] b.kind = "text" -> g.rep = "str"
      [] OTHER -> g.rep = "bytes"

\* Block b, which begins at `at', is g now, and the next one begins at `end'.
Got(mode, buffer, size, at, b, g, end) ==
    /\ ReadBack(mode, b, g)
    /\ b.kind # "raw" => at + Need(b) <= size
    /\ \A f \in Field(b) : ProperField(b, f) /\ Holds(buffer, at, b, f) =>
          /\ end = at + Width(b, f)
          /\ \/ SameField(b, f, g)
             \/ Sliceable(b) /\ g.n < f.n /\ end > size

\* A slice of a run, at its end or before.
LEMMA SliceOfRun ==
    ASSUME NEW buffer, Tiled(buffer), NEW size \in Nat, NEW at \in Nat, NEW n \in Nat,
           NEW rep
    PROVE  LET g == Sliced(buffer, size, at, n, rep)
           IN  /\ g.rep = rep /\ g.n \in Nat /\ g.v \in Nat /\ (g.n = 0 => g.v = 0)
               /\ g = [rep |-> rep, n |-> g.n, v |-> g.v]
               /\ \A v \in Nat : HasRun(buffer, at, n, v) /\ (n = 0 => v = 0) =>
                     \/ g.n = n /\ g.v = v
                     \/ g.n < n /\ at + n > size
  <1> DEFINE g == Sliced(buffer, size, at, n, rep)
  <1>1. PICK len \in 0 .. n :
             /\ at + n <= size => len = n
             /\ at + n > size /\ n > 0 => len < n
             /\ g = [rep |-> rep, n |-> len, v |-> Content(buffer, size, at, len)]
    BY SliceIs
  <1>2. g.rep = rep /\ g.n = len /\ g.v = Content(buffer, size, at, len)
    BY <1>1
  <1>3. len \in Nat /\ g.v \in Nat /\ (len = 0 => g.v = 0)
    BY <1>2, ContentType
  <1>4. ASSUME NEW v \in Nat, HasRun(buffer, at, n, v), n = 0 => v = 0
        PROVE  \/ g.n = n /\ g.v = v
               \/ g.n < n /\ at + n > size
    <2>1. CASE at + n <= size
      BY <1>1, <1>2, <1>4, <2>1, ContentOfRun
    <2>2. CASE at + n > size /\ n > 0
      BY <1>1, <1>2, <2>2
    <2>3. CASE n = 0
      BY <1>1, <1>2, <1>3, <1>4, <2>3
    <2>4. at + n <= size \/ at + n > size
      OBVIOUS
    <2>. QED  BY <2>1, <2>2, <2>3, <2>4
  <1>5. g = [rep |-> rep, n |-> g.n, v |-> g.v]
    BY <1>1, <1>2
  <1>. HIDE DEF g
  <1>6. /\ g.rep = rep /\ g.n \in Nat /\ g.v \in Nat /\ (g.n = 0 => g.v = 0)
        /\ \A v \in Nat : HasRun(buffer, at, n, v) /\ (n = 0 => v = 0) =>
              \/ g.n = n /\ g.v = v
              \/ g.n < n /\ at + n > size
    BY <1>2, <1>3, <1>4
  <1>. QED  BY <1>5, <1>6 DEF g

\* An n-byte string that is not a list.
LEMMA RawGot ==
    ASSUME NEW buffer, Tiled(buffer), NEW size \in Nat, NEW at \in Nat, NEW mode,
           NEW b \in Block, b.kind = "raw"
    PROVE  LET g == Sliced(buffer, size, at, Need(b), "bytes")
           IN  g \in Field(b) /\ Got(mode, buffer, size, at, b, g, at + Need(b))
  <1> DEFINE g == Sliced(buffer, size, at, Need(b), "bytes")
  <1>1. Need(b) \in Nat /\ Need(b) > 0 /\ Need(b) = b.count
    <2>1. b.count \in Nat /\ b.item = 1 /\ b.count > 0
      BY DEF Block
    <2>. QED  BY <2>1 DEF Need
  <1>2. /\ g.rep = "bytes" /\ g.n \in Nat /\ g.v \in Nat
        /\ g = [rep |-> "bytes", n |-> g.n, v |-> g.v]
        /\ \A v \in Nat : HasRun(buffer, at, Need(b), v) =>
              \/ g.n = Need(b) /\ g.v = v
              \/ g.n < Need(b) /\ at + Need(b) > size
    BY <1>1, SliceOfRun
  <1>. HIDE DEF g
  <1>3. g \in Field(b)
    BY <1>2 DEF Field, StoredAs
  <1>4. ReadBack(mode, b, g)
    BY <1>2 DEF ReadBack
  <1>5. ASSUME NEW f \in Field(b), ProperField(b, f), Holds(buffer, at, b, f)
        PROVE  /\ Width(b, f) = Need(b)
               /\ \/ SameField(b, f, g)
                  \/ Sliceable(b) /\ g.n < f.n /\ at + Need(b) > size
    <2>1. f.n = Need(b) /\ f.v \in Nat /\ HasRun(buffer, at, Need(b), f.v)
      BY <1>1, <1>5 DEF ProperField, Holds, Field
    <2>. QED  BY <1>2, <2>1 DEF SameField, Sliceable, Width, Need
  <1>6. Got(mode, buffer, size, at, b, g, at + Need(b))
    BY <1>4, <1>5 DEF Got
  <1>. QED  BY <1>3, <1>6 DEF g

\* A string, or uint8[], behind its length.
LEMMA TextGot ==
    ASSUME NEW buffer, Tiled(buffer), NEW size \in Nat, NEW at \in Nat, NEW mode,
           NEW b \in Block, b.kind \in {"text", "data"}, at + 4 <= size
    PROVE  LET n == Content(buffer, size, at, 4)
               g == Sliced(buffer, size, at + 4, n,
                           IF b.kind = "text" THEN "str" ELSE "bytes")
           IN  g \in Field(b) /\ Got(mode, buffer, size, at, b, g, at + 4 + n) /\ n \in Nat
  <1> DEFINE n == Content(buffer, size, at, 4)
             rep == IF b.kind = "text" THEN "str" ELSE "bytes"
             g == Sliced(buffer, size, at + 4, n, rep)
  <1>1. n \in Nat /\ at + 4 \in Nat
    BY ContentType
  <1>2. /\ rep \in StoredAs
        /\ b.kind = "text" => rep = "str"
        /\ b.kind = "data" => rep = "bytes"
    BY DEF StoredAs
  <1>3. ASSUME NEW f \in Field(b), Holds(buffer, at, b, f)
        PROVE  /\ n = f.n /\ f.n \in Nat /\ f.v \in Nat /\ (f.n = 0 => f.v = 0)
               /\ HasRun(buffer, at + 4, f.n, f.v)
    <2>1. /\ f.n \in Nat /\ f.v \in Nat /\ (f.n = 0 => f.v = 0)
          /\ HasRun(buffer, at, 4, f.n) /\ HasRun(buffer, at + 4, f.n, f.v)
      BY <1>3 DEF Field, Holds
    <2>. QED  BY <2>1, ContentOfRun
  <1>. HIDE DEF n, rep
  <1>4. /\ g.rep = rep /\ g.n \in Nat /\ g.v \in Nat /\ (g.n = 0 => g.v = 0)
        /\ g = [rep |-> rep, n |-> g.n, v |-> g.v]
        /\ \A v \in Nat : HasRun(buffer, at + 4, n, v) /\ (n = 0 => v = 0) =>
              \/ g.n = n /\ g.v = v
              \/ g.n < n /\ at + 4 + n > size
    BY <1>1, SliceOfRun
  <1>. HIDE DEF g
  <1>5. g \in Field(b)
    BY <1>2, <1>4 DEF Field
  <1>6. ReadBack(mode, b, g)
    BY <1>2, <1>4 DEF ReadBack
  <1>7. ASSUME NEW f \in Field(b), Holds(buffer, at, b, f)
        PROVE  /\ at + 4 + n = at + Width(b, f)
               /\ \/ SameField(b, f, g)
                  \/ Sliceable(b) /\ g.n < f.n /\ at + 4 + n > size
    BY <1>1, <1>3, <1>4, <1>7 DEF SameField, Sliceable, Width
  <1>8. Got(mode, buffer, size, at, b, g, at + 4 + n)
    BY <1>6, <1>7 DEF Got, Need
  <1>. QED  BY <1>1, <1>5, <1>8 DEF g, n, rep

\* Numbers, truth values and arrays, which are read whole.
LEMMA WholeGot ==
    ASSUME NEW buffer, Tiled(buffer), NEW size \in Nat, NEW at \in Nat, NEW mode,
           NEW b \in Block, b.kind \in Whole, at + Need(b) <= size
    PROVE  LET g == ReadAs(mode, b, Content(buffer, size, at, Need(b)))
           IN  g \in Field(b) /\ Got(mode, buffer, size, at, b, g, at + Need(b))
  <1> DEFINE v == Content(buffer, size, at, Need(b))
             g == ReadAs(mode, b, v)
  <1>1. v \in Nat /\ Need(b) \in Nat /\ Need(b) # 0 /\ b.count \in Nat
    BY ContentType, NeedIsPositive DEF Block
  <1>2. ASSUME NEW f \in Field(b), ProperField(b, f), Holds(buffer, at, b, f)
        PROVE  v = f.v
    <2>1. f.v \in Nat /\ HasRun(buffer, at, Need(b), f.v)
      BY <1>2 DEF Field, Holds, Whole
    <2>. QED  BY <1>1, <2>1, ContentOfRun
  <1>. HIDE DEF v
  <1>3. g \in Field(b) /\ ReadBack(mode, b, g)
    BY <1>1 DEF ReadAs, Truth, Garbage, Field, StoredAs, ReadBack, Whole
  <1>4. ASSUME NEW f \in Field(b), ProperField(b, f), Holds(buffer, at, b, f)
        PROVE  SameField(b, f, g) /\ Width(b, f) = Need(b)
    <2>1. v = f.v
      BY <1>2, <1>4
    <2>. QED  BY <1>4, <2>1 DEF SameField, Width, Need, ReadAs, Field, ProperField, Whole
  <1>5. Got(mode, buffer, size, at, b, g, at + Need(b))
    BY <1>3, <1>4 DEF Got
  <1>. QED  BY <1>3, <1>5 DEF v

-----------------------------------------------------------------------------
(* One block of a message is read.                                         *)

Messages(c) ==
    {o \in [Blocks(c) -> [rep : StoredAs, n : Nat, v : Nat]] :
        \A i \in Blocks(c) : o[i] \in Field(Layout[c][i])}

\* Where a method is between two blocks.
Progress(c) ==
    [at : Nat, obj : Messages(c), fault : {"none", "DeserializationError", "ValueError"}]

\* The three things that reading a block can come to.
Passed(acc, next) == acc.fault # "none" /\ next = acc

Failed(mode, size, acc, next, b) ==
    /\ acc.fault = "none"
    /\ next.fault # "none" /\ next.obj = acc.obj
    /\ b.kind # "raw" /\ acc.at + Need(b) > size

Stored(mode, buffer, size, acc, next, b, i) ==
    /\ acc.fault = "none" /\ next.fault = "none"
    /\ \E g \in Field(b) :
         /\ next.obj = [acc.obj EXCEPT ![i] = g]
         /\ Got(mode, buffer, size, acc.at, b, g, next.at)

\* A field of a message is replaced by another one of its block.
LEMMA MessageExcept ==
    ASSUME NEW c, NEW o \in Messages(c), NEW i \in Blocks(c), NEW g \in Field(Layout[c][i])
    PROVE  [o EXCEPT ![i] = g] \in Messages(c)
  BY DEF Messages, Field

\* Reading a block stores it, fails, or finds that it failed before.
LEMMA BlockRead ==
    ASSUME NEW c \in DOMAIN Layout, NEW mode, NEW buffer, Tiled(buffer), NEW size \in Nat,
           NEW i \in Blocks(c), NEW acc \in Progress(c)
    PROVE  LET next == Read(mode, c, buffer, size, acc, i)
           IN  /\ next \in Progress(c)
               /\ \/ Passed(acc, next)
                  \/ Failed(mode, size, acc, next, Layout[c][i])
                  \/ Stored(mode, buffer, size, acc, next, Layout[c][i], i)
  <1> DEFINE b == Layout[c][i]
             next == Read(mode, c, buffer, size, acc, i)
             into(f, end) ==
                 [at |-> end, obj |-> [acc.obj EXCEPT ![i] = f], fault |-> "none"]
  <1>. SUFFICES /\ next \in Progress(c)
                /\ \/ Passed(acc, next)
                   \/ Failed(mode, size, acc, next, b)
                   \/ Stored(mode, buffer, size, acc, next, b, i)
    OBVIOUS
  <1>1. b \in Block /\ b.kind \in BlockKinds /\ Need(b) \in Nat
    BY BlocksOf, NeedIsPositive DEF Block
  <1>2. acc.at \in Nat /\ acc.obj \in Messages(c)
    BY DEF Progress
  <1>3. ASSUME NEW g \in Field(b), NEW end \in Nat, acc.fault = "none", next = into(g, end),
               Got(mode, buffer, size, acc.at, b, g, end)
        PROVE  next \in Progress(c) /\ Stored(mode, buffer, size, acc, next, b, i)
    <2>1. [acc.obj EXCEPT ![i] = g] \in Messages(c)
      BY <1>2, MessageExcept
    <2>2. next.at = end /\ next.obj = [acc.obj EXCEPT ![i] = g] /\ next.fault = "none"
      BY <1>3
    <2>3. next \in Progress(c)
      BY <1>3, <2>1 DEF Progress
    <2>. HIDE DEF next, b
    <2>. QED  BY <1>3, <2>2, <2>3 DEF Stored
  <1>4. CASE acc.fault # "none"
    BY <1>4 DEF Passed, Read
  <1>5. CASE acc.fault = "none" /\ b.kind = "raw"
    <2> DEFINE g == Sliced(buffer, size, acc.at, Need(b), "bytes")
    <2>1. g \in Field(b) /\ Got(mode, buffer, size, acc.at, b, g, acc.at + Need(b))
      BY <1>1, <1>2, <1>5, RawGot
    <2>2. next = into(g, acc.at + Need(b))
      BY <1>5 DEF Read
    <2>3. acc.at + Need(b) \in Nat
      BY <1>1, <1>2
    <2>. HIDE DEF g, b, next
    <2>. QED  BY <1>3, <1>5, <2>1, <2>2, <2>3
  <1>6. CASE acc.fault = "none" /\ b.kind # "raw" /\ acc.at + Need(b) > size
    <2>1. next = [acc EXCEPT !.fault = ShortFault(mode, b)]
      BY <1>1, <1>2, <1>6 DEF Read
    <2>2. ShortFault(mode, b) \in {"DeserializationError", "ValueError"}
      BY DEF ShortFault
    <2>. HIDE DEF b, next
    <2>3. next.fault = ShortFault(mode, b) /\ next.obj = acc.obj /\ next \in Progress(c)
      BY <2>1, <2>2 DEF Progress
    <2>. QED  BY <1>6, <2>2, <2>3 DEF Failed, b, next
  <1>7. CASE acc.fault = "none" /\ b.kind \in {"text", "data"} /\ acc.at + Need(b) <= size
    <2> DEFINE n == Content(buffer, size, acc.at, 4)
               g == Sliced(buffer, size, acc.at + 4, n,
                           IF b.kind = "text" THEN "str" ELSE "bytes")
    <2>1. Need(b) = 4
      BY <1>7 DEF Need
    <2>2. /\ g \in Field(b) /\ Got(mode, buffer, size, acc.at, b, g, acc.at + 4 + n)
          /\ n \in Nat
      BY <1>1, <1>2, <1>7, <2>1, TextGot
    <2>3. next = into(g, acc.at + 4 + n)
      <3>1. ~(acc.at + 4 > size)
        BY <1>2, <1>7, <2>1
      <3>. QED  BY <1>7, <2>1, <3>1 DEF Read
    <2>4. acc.at + 4 + n \in Nat
      BY <1>2, <2>2
    <2>. HIDE DEF n, g, b, next
    <2>. QED  BY <1>3, <1>7, <2>2, <2>3, <2>4
  <1>8. CASE acc.fault = "none" /\ b.kind \in Whole /\ acc.at + Need(b) <= size
    <2> DEFINE g == ReadAs(mode, b, Content(buffer, size, acc.at, Need(b)))
    <2>1. g \in Field(b) /\ Got(mode, buffer, size, acc.at, b, g, acc.at + Need(b))
      BY <1>1, <1>2, <1>8, WholeGot
    <2>2. next = into(g, acc.at + Need(b))
      <3>1. ~(acc.at + Need(b) > size)
        BY <1>1, <1>2, <1>8
      <3>. QED  BY <1>8, <3>1 DEF Read, Whole
    <2>3. acc.at + Need(b) \in Nat
      BY <1>1, <1>2
    <2>. HIDE DEF g, b, next
    <2>. QED  BY <1>3, <1>8, <2>1, <2>2, <2>3
  <1>9. acc.at + Need(b) <= size \/ acc.at + Need(b) > size
    BY <1>1, <1>2
  <1>. QED  BY <1>1, <1>4, <1>5, <1>6, <1>7, <1>8, <1>9 DEF BlockKinds, Whole

-----------------------------------------------------------------------------
(* The methods go through the blocks.                                      *)

\* The buffer after a block is the one before it, with the block.
LEMMA WritesBlockwise ==
    ASSUME NEW c \in DOMAIN Layout, NEW o
    PROVE  LET after == Writes(c, o)
           IN  /\ after[0] = Empty
               /\ \A k \in Blocks(c) : after[k] = Written(after[k - 1], Layout[c][k], o[k])
  <1> DEFINE n == Len(Layout[c])
             Start == Empty
             Step(acc, k) == Written(acc, Layout[c][k], o[k])
             After(g, m) ==
                 g = [k \in 0 .. m |-> IF k = 0 THEN Start ELSE Step(g[k - 1], k)]
             T == {m \in 0 .. n : \E g : After(g, m)}
             after == Writes(c, o)
  <1>1. n \in Nat /\ Blocks(c) = 1 .. n
    BY BlocksOf
  <1>2. 0 \in T
    <2>1. After([k \in 0 .. 0 |-> Start], 0)
      OBVIOUS
    <2>2. 0 \in 0 .. n
      BY <1>1
    <2>. HIDE DEF After
    <2>. QED  BY <2>1, <2>2
  <1>3. ASSUME NEW m \in 0 .. n - 1, m \in T PROVE m + 1 \in T
    <2>1. PICK g : After(g, m)
      BY <1>3
    <2> DEFINE h == [k \in 0 .. m + 1 |-> IF k = m + 1 THEN Step(g[m], m + 1) ELSE g[k]]
    <2>2. m \in Nat /\ m + 1 \in 0 .. n /\ 0 .. m + 1 = (0 .. m) \cup {m + 1}
      BY <1>1
    <2>3. \A k \in 0 .. m : h[k] = g[k] /\ k # m + 1
      BY <2>2
    <2>4. /\ h[m + 1] = Step(g[m], m + 1)
          /\ m + 1 # 0 /\ m + 1 - 1 = m /\ m \in 0 .. m
      BY <2>2
    <2>5. \A k \in 0 .. m : g[k] = IF k = 0 THEN Start ELSE Step(g[k - 1], k)
      BY <2>1
    <2>6. \A k \in 0 .. m : k # 0 => k - 1 \in 0 .. m
      BY <2>2
    <2>7. ASSUME NEW k \in 0 .. m + 1
          PROVE  h[k] = IF k = 0 THEN Start ELSE Step(h[k - 1], k)
      <3>1. CASE k \in 0 .. m
        BY <2>3, <2>5, <2>6, <3>1
      <3>2. CASE k = m + 1
        BY <2>3, <2>4, <3>2
      <3>. QED  BY <2>2, <3>1, <3>2
    <2>8. h = [k \in 0 .. m + 1 |-> h[k]]
      OBVIOUS
    <2>9. After(h, m + 1)
      <3>. HIDE DEF h
      <3>. QED  BY <2>7, <2>8
    <2>. QED  BY <2>2, <2>9
  <1>4. n \in T
    <2>. HIDE DEF T
    <2>1. 0 .. n \subseteq T
      BY <1>1, <1>2, <1>3, BlockInduction
    <2>. QED  BY <1>1, <2>1
  <1>5. after = CHOOSE g : After(g, n)
    BY DEF Writes
  <1>6. After(after, n)
    <2>1. \E g : After(g, n)
      BY <1>4
    <2>. HIDE DEF After, after
    <2>. QED  BY <1>5, <2>1
  <1>. HIDE DEF after
  <1>7. \A k \in 0 .. n : after[k] = IF k = 0 THEN Start ELSE Step(after[k - 1], k)
    BY <1>6
  <1>8. /\ after[0] = Start
        /\ \A k \in Blocks(c) : after[k] = Step(after[k - 1], k)
    BY <1>1, <1>7
  <1>. QED  BY <1>8 DEF after

\* A method is after a block where reading the block brings it.
LEMMA ReadsBlockwise ==
    ASSUME NEW c \in DOMAIN Layout, NEW mode, NEW buffer, NEW size, NEW o
    PROVE  LET after == Reads(mode, c, buffer, size, o)
           IN  /\ after[0] = [at |-> 0, obj |-> o, fault |-> "none"]
               /\ \A k \in Blocks(c) :
                    after[k] = Read(mode, c, buffer, size, after[k - 1], k)
  <1> DEFINE n == Len(Layout[c])
             Start == [at |-> 0, obj |-> o, fault |-> "none"]
             Step(acc, k) == Read(mode, c, buffer, size, acc, k)
             After(g, m) ==
                 g = [k \in 0 .. m |-> IF k = 0 THEN Start ELSE Step(g[k - 1], k)]
             T == {m \in 0 .. n : \E g : After(g, m)}
             after == Reads(mode, c, buffer, size, o)
  <1>1. n \in Nat /\ Blocks(c) = 1 .. n
    BY BlocksOf
  <1>2. 0 \in T
    <2>1. After([k \in 0 .. 0 |-> Start], 0)
      OBVIOUS
    <2>2. 0 \in 0 .. n
      BY <1>1
    <2>. HIDE DEF After
    <2>. QED  BY <2>1, <2>2
  <1>3. ASSUME NEW m \in 0 .. n - 1, m \in T PROVE m + 1 \in T
    <2>1. PICK g : After(g, m)
      BY <1>3
    <2> DEFINE h == [k \in 0 .. m + 1 |-> IF k = m + 1 THEN Step(g[m], m + 1) ELSE g[k]]
    <2>2. m \in Nat /\ m + 1 \in 0 .. n /\ 0 .. m + 1 = (0 .. m) \cup {m + 1}
      BY <1>1
    <2>3. \A k \in 0 .. m : h[k] = g[k] /\ k # m + 1
      BY <2>2
    <2>4. /\ h[m + 1] = Step(g[m], m + 1)
          /\ m + 1 # 0 /\ m + 1 - 1 = m /\ m \in 0 .. m
      BY <2>2
    <2>5. \A k \in 0 .. m : g[k] = IF k = 0 THEN Start ELSE Step(g[k - 1], k)
      BY <2>1
    <2>6. \A k \in 0 .. m : k # 0 => k - 1 \in 0 .. m
      BY <2>2
    <2>7. ASSUME NEW k \in 0 .. m + 1
          PROVE  h[k] = IF k = 0 THEN Start ELSE Step(h[k - 1], k)
      <3>1. CASE k \in 0 .. m
        BY <2>3, <2>5, <2>6, <3>1
      <3>2. CASE k = m + 1
        BY <2>3, <2>4, <3>2
      <3>. QED  BY <2>2, <3>1, <3>2
    <2>8. h = [k \in 0 .. m + 1 |-> h[k]]
      OBVIOUS
    <2>9. After(h, m + 1)
      <3>. HIDE DEF h
      <3>. QED  BY <2>7, <2>8
    <2>. QED  BY <2>2, <2>9
  <1>4. n \in T
    <2>. HIDE DEF T
    <2>1. 0 .. n \subseteq T
      BY <1>1, <1>2, <1>3, BlockInduction
    <2>. QED  BY <1>1, <2>1
  <1>5. after = CHOOSE g : After(g, n)
    BY DEF Reads
  <1>6. After(after, n)
    <2>1. \E g : After(g, n)
      BY <1>4
    <2>. HIDE DEF After, after
    <2>. QED  BY <1>5, <2>1
  <1>. HIDE DEF after
  <1>7. \A k \in 0 .. n : after[k] = IF k = 0 THEN Start ELSE Step(after[k - 1], k)
    BY <1>6
  <1>8. /\ after[0] = Start
        /\ \A k \in Blocks(c) : after[k] = Step(after[k - 1], k)
    BY <1>1, <1>7
  <1>. QED  BY <1>8 DEF after

\* Where a buffer is after each block of a message: no runs are lost.
LEMMA WritesTile ==
    ASSUME NEW c \in DOMAIN Layout, NEW o \in Messages(c)
    PROVE  \A k \in 0 .. Len(Layout[c]) :
             /\ Tiled(Writes(c, o)[k])
             /\ \A i \in 0 .. k : Writes(c, o)[i].runs \subseteq Writes(c, o)[k].runs
  <1> DEFINE n == Len(Layout[c])
             after == Writes(c, o)
             T == {k \in 0 .. n :
                     /\ Tiled(after[k])
                     /\ \A i \in 0 .. k : after[i].runs \subseteq after[k].runs}
  <1>1. n \in Nat /\ Blocks(c) = 1 .. n
    BY BlocksOf
  <1>2. /\ after[0] = Empty
        /\ \A k \in Blocks(c) : after[k] = Written(after[k - 1], Layout[c][k], o[k])
    BY WritesBlockwise
  <1>3. 0 \in T
    <2>1. Tiled(Empty)
      BY DEF Empty, Tiled, Buffer
    <2>2. 0 \in 0 .. n /\ \A i \in 0 .. 0 : i = 0
      BY <1>1
    <2>. HIDE DEF after
    <2>. QED  BY <1>2, <2>1, <2>2
  <1>4. ASSUME NEW k \in 0 .. n - 1, k \in T PROVE k + 1 \in T
    <2>1. /\ k + 1 \in Blocks(c) /\ k + 1 \in 0 .. n /\ k + 1 - 1 = k
          /\ \A i \in 0 .. k + 1 : i \in 0 .. k \/ i = k + 1
      BY <1>1
    <2>2. Layout[c][k + 1] \in Block /\ o[k + 1] \in Field(Layout[c][k + 1])
      BY <2>1, BlocksOf DEF Messages
    <2>. HIDE DEF after
    <2>3. Tiled(after[k]) /\ \A i \in 0 .. k : after[i].runs \subseteq after[k].runs
      BY <1>4
    <2>4. Tiled(after[k + 1]) /\ after[k].runs \subseteq after[k + 1].runs
      BY <1>2, <2>1, <2>2, <2>3, BlockWritten
    <2>. QED  BY <2>1, <2>3, <2>4
  <1>. HIDE DEF after
  <1>5. 0 .. n \subseteq T
    <2>. HIDE DEF T
    <2>. QED  BY <1>1, <1>3, <1>4, BlockInduction
  <1>. QED  BY <1>5 DEF after

\* A message whose arrays have the size of their type is written block by block
\* where it will be read.
LEMMA SerializedHolds ==
    ASSUME NEW c \in DOMAIN Layout, NEW o \in Messages(c), Proper(c, o)
    PROVE  LET after == Writes(c, o)
               n == Len(Layout[c])
           IN  /\ Tiled(Serialized(c, o)) /\ Serialized(c, o).size = after[n].size
               /\ after[0].size = 0
               /\ \A i \in Blocks(c) :
                    /\ after[i].size = after[i - 1].size + Width(Layout[c][i], o[i])
                    /\ Holds(Serialized(c, o), after[i - 1].size, Layout[c][i], o[i])
               /\ \A k \in 0 .. n : after[k].size \in Nat
               /\ \A k \in 0 .. n : \A i \in 0 .. k : after[i].size <= after[k].size
  <1> DEFINE n == Len(Layout[c])
             after == Writes(c, o)
  <1>1. n \in Nat /\ Blocks(c) = 1 .. n /\ Serialized(c, o) = after[n]
    BY BlocksOf DEF Serialized
  <1>2. /\ after[0] = Empty
        /\ \A k \in Blocks(c) : after[k] = Written(after[k - 1], Layout[c][k], o[k])
    BY WritesBlockwise
  <1>3. \A k \in 0 .. n : /\ Tiled(after[k]) /\ after[k].size \in Nat
                          /\ \A i \in 0 .. k : after[i].runs \subseteq after[k].runs
    BY WritesTile DEF Tiled, Buffer
  <1>. HIDE DEF after
  <1>4. ASSUME NEW i \in Blocks(c)
        PROVE  /\ after[i].size = after[i - 1].size + Width(Layout[c][i], o[i])
               /\ Width(Layout[c][i], o[i]) \in Nat
               /\ Holds(after[n], after[i - 1].size, Layout[c][i], o[i])
    <2>1. i - 1 \in 0 .. n /\ i \in 0 .. n /\ n \in 0 .. n
      BY <1>1
    <2>2. /\ Layout[c][i] \in Block /\ o[i] \in Field(Layout[c][i])
          /\ ProperField(Layout[c][i], o[i])
      BY BlocksOf DEF Messages, Proper, ProperField
    <2>3. /\ after[i].size = after[i - 1].size + Width(Layout[c][i], o[i])
          /\ Holds(after[i], after[i - 1].size, Layout[c][i], o[i])
      BY <1>2, <1>3, <2>1, <2>2, BlockWritten
    <2>4. after[i].runs \subseteq after[n].runs
      BY <1>3, <2>1
    <2>5. Width(Layout[c][i], o[i]) \in Nat
      BY <2>2, NeedIsPositive DEF Width, Need, Field
    <2>. QED  BY <2>3, <2>4, <2>5 DEF Holds, HasRun
  <1> DEFINE T == {k \in 0 .. n : \A i \in 0 .. k : after[i].size <= after[k].size}
  <1>5. 0 \in T
    BY <1>1, <1>3
  <1>6. ASSUME NEW k \in 0 .. n - 1, k \in T PROVE k + 1 \in T
    <2>1. /\ k + 1 \in Blocks(c) /\ k + 1 \in 0 .. n /\ k + 1 - 1 = k /\ k \in 0 .. n
          /\ \A i \in 0 .. k + 1 : i \in 0 .. k \/ i = k + 1
          /\ \A i \in 0 .. k : i \in 0 .. n
      BY <1>1
    <2>2. after[k].size <= after[k + 1].size
      BY <1>3, <1>4, <2>1
    <2>3. ASSUME NEW i \in 0 .. k PROVE after[i].size <= after[k + 1].size
      <3>1. after[i].size <= after[k].size
        BY <1>6
      <3>2. after[i].size \in Nat /\ after[k].size \in Nat /\ after[k + 1].size \in Nat
        BY <1>3, <2>1
      <3>. QED  BY <2>2, <3>1, <3>2
    <2>4. after[k + 1].size <= after[k + 1].size
      BY <1>3, <2>1
    <2>. QED  BY <2>1, <2>3, <2>4
  <1>7. 0 .. n \subseteq T
    <2>. HIDE DEF T
    <2>. QED  BY <1>1, <1>5, <1>6, BlockInduction
  <1>8. /\ Tiled(Serialized(c, o)) /\ Serialized(c, o).size = after[n].size
        /\ after[0].size = 0
        /\ \A i \in Blocks(c) :
             /\ after[i].size = after[i - 1].size + Width(Layout[c][i], o[i])
             /\ Holds(Serialized(c, o), after[i - 1].size, Layout[c][i], o[i])
        /\ \A k \in 0 .. n : after[k].size \in Nat
        /\ \A k \in 0 .. n : \A i \in 0 .. k : after[i].size <= after[k].size
    <2>1. n \in 0 .. n /\ Tiled(after[n])
      BY <1>1, <1>3
    <2>2. after[0].size = 0
      BY <1>2 DEF Empty
    <2>3. \A k \in 0 .. n : after[k].size \in Nat
      BY <1>3
    <2>4. \A k \in 0 .. n : \A i \in 0 .. k : after[i].size <= after[k].size
      BY <1>7
    <2>. QED  BY <1>1, <1>4, <2>1, <2>2, <2>3, <2>4
  <1>. QED  BY <1>8 DEF after

\* Between two blocks the method holds a message of the class; without an
\* exception, what it has read is stored as it reads it.
LEMMA ReadsType ==
    ASSUME NEW c \in DOMAIN Layout, NEW mode, NEW buffer, Tiled(buffer), NEW size \in Nat,
           NEW o \in Messages(c)
    PROVE  LET after == Reads(mode, c, buffer, size, o)
           IN  \A k \in 0 .. Len(Layout[c]) :
                 /\ after[k] \in Progress(c)
                 /\ after[k].fault = "none" =>
                      \A i \in 1 .. k : ReadBack(mode, Layout[c][i], after[k].obj[i])
  <1> DEFINE n == Len(Layout[c])
             after == Reads(mode, c, buffer, size, o)
             T == {k \in 0 .. n :
                     /\ after[k] \in Progress(c)
                     /\ after[k].fault = "none" =>
                          \A i \in 1 .. k : ReadBack(mode, Layout[c][i], after[k].obj[i])}
  <1>1. n \in Nat /\ Blocks(c) = 1 .. n
    BY BlocksOf
  <1>2. /\ after[0] = [at |-> 0, obj |-> o, fault |-> "none"]
        /\ \A k \in Blocks(c) : after[k] = Read(mode, c, buffer, size, after[k - 1], k)
    BY ReadsBlockwise
  <1>. HIDE DEF after
  <1>3. 0 \in T
    <2>1. after[0] \in Progress(c)
      BY <1>2 DEF Progress
    <2>2. 0 \in 0 .. n /\ 1 .. 0 = {}
      BY <1>1
    <2>. QED  BY <2>1, <2>2
  <1>4. ASSUME NEW k \in 0 .. n - 1, k \in T PROVE k + 1 \in T
    <2> DEFINE acc == after[k]
               next == after[k + 1]
               b == Layout[c][k + 1]
    <2>1. /\ k + 1 \in Blocks(c) /\ k + 1 \in 0 .. n /\ k + 1 - 1 = k
          /\ \A i \in 1 .. k + 1 : i \in 1 .. k \/ i = k + 1
          /\ \A i \in 1 .. k : i \in Blocks(c) /\ i # k + 1
      BY <1>1
    <2>2. /\ acc \in Progress(c)
          /\ acc.fault = "none" =>
               \A i \in 1 .. k : ReadBack(mode, Layout[c][i], acc.obj[i])
      BY <1>4
    <2>3. /\ next \in Progress(c)
          /\ \/ Passed(acc, next)
             \/ Failed(mode, size, acc, next, b)
             \/ Stored(mode, buffer, size, acc, next, b, k + 1)
      BY <1>2, <2>1, <2>2, BlockRead
    <2>4. ASSUME next.fault = "none", NEW i \in 1 .. k + 1
          PROVE  ReadBack(mode, Layout[c][i], next.obj[i])
      <3>1. acc.fault = "none" /\ Stored(mode, buffer, size, acc, next, b, k + 1)
        BY <2>3, <2>4 DEF Passed, Failed, Stored
      <3>2. PICK g : next.obj = [acc.obj EXCEPT ![k + 1] = g] /\ ReadBack(mode, b, g)
        BY <3>1 DEF Stored, Got
      <3>3. acc.obj \in [Blocks(c) -> [rep : StoredAs, n : Nat, v : Nat]]
        BY <2>2 DEF Progress, Messages
      <3>4. next.obj[k + 1] = g /\ \A j \in 1 .. k : next.obj[j] = acc.obj[j]
        BY <2>1, <3>2, <3>3
      <3>. QED  BY <2>1, <2>2, <3>1, <3>2, <3>4
    <2>. QED  BY <2>1, <2>3, <2>4
  <1>5. 0 .. n \subseteq T
    <2>. HIDE DEF T
    <2>. QED  BY <1>1, <1>3, <1>4, BlockInduction
  <1>. QED  BY <1>5 DEF after

-----------------------------------------------------------------------------
(* What is read of what was written.                                       *)

\* Block i of a message, read from the first `size' bytes of what was made of
\* message src: the same, or cut by the end of the buffer.
Kept(c, src, size, i, g) ==
    \/ SameField(Layout[c][i], src[i], g)
    \/ /\ Sliceable(Layout[c][i]) /\ g.n < src[i].n
       /\ Writes(c, src)[i].size > size

\* The blocks up to k come from src, those behind it are still those of o.
UpTo(c, src, size, o, k, new) ==
    \A i \in Blocks(c) : IF i > k THEN new[i] = o[i] ELSE Kept(c, src, size, i, new[i])

\* Only a slice is read where there may be nothing.
Enough(c, src, size, i) ==
    Layout[c][i].kind # "raw" => Writes(c, src)[i - 1].size + Need(Layout[c][i]) <= size

\* The method has come to the end of block k, or has stopped before block j.
Went(c, src, size, o, k, acc) ==
    /\ acc.fault = "none" /\ acc.at = Writes(c, src)[k].size
    /\ UpTo(c, src, size, o, k, acc.obj)
    /\ \A i \in 1 .. k : Enough(c, src, size, i)

Stopped(c, src, size, o, k, acc) ==
    /\ acc.fault # "none"
    /\ \E j \in 1 .. k : UpTo(c, src, size, o, j - 1, acc.obj) /\ ~Enough(c, src, size, j)

\* However much of a buffer there is, the blocks that are read are those that
\* were written, and reading stops at the first that is not there.
LEMMA ReadsWhatWasWritten ==
    ASSUME NEW c \in DOMAIN Layout, NEW mode, NEW src \in Messages(c), Proper(c, src),
           NEW size \in Nat, NEW o \in Messages(c)
    PROVE  LET after == Reads(mode, c, Serialized(c, src), size, o)
           IN  \A k \in 0 .. Len(Layout[c]) :
                 \/ Went(c, src, size, o, k, after[k])
                 \/ Stopped(c, src, size, o, k, after[k])
  <1> DEFINE n == Len(Layout[c])
             wrote == Writes(c, src)
             buffer == Serialized(c, src)
             after == Reads(mode, c, buffer, size, o)
             T == {k \in 0 .. n : \/ Went(c, src, size, o, k, after[k])
                                  \/ Stopped(c, src, size, o, k, after[k])}
  <1>1. n \in Nat /\ Blocks(c) = 1 .. n
    BY BlocksOf
  <1>2. /\ Tiled(buffer) /\ wrote[0].size = 0
        /\ \A i \in Blocks(c) :
             /\ wrote[i].size = wrote[i - 1].size + Width(Layout[c][i], src[i])
             /\ Holds(buffer, wrote[i - 1].size, Layout[c][i], src[i])
    BY SerializedHolds
  <1>. HIDE DEF buffer
  <1>3. /\ after[0] = [at |-> 0, obj |-> o, fault |-> "none"]
        /\ \A k \in Blocks(c) : after[k] = Read(mode, c, buffer, size, after[k - 1], k)
    BY ReadsBlockwise
  <1>4. \A k \in 0 .. n : after[k] \in Progress(c)
    BY <1>2, ReadsType
  <1>. HIDE DEF after
  <1>5. 0 \in T
    <2>1. /\ after[0].fault = "none" /\ after[0].at = wrote[0].size /\ after[0].obj = o
          /\ 0 \in 0 .. n /\ \A i \in Blocks(c) : i > 0
          /\ 1 .. 0 = {}
      BY <1>1, <1>2, <1>3
    <2>2. Went(c, src, size, o, 0, after[0])
      BY <2>1 DEF Went, UpTo
    <2>. QED  BY <2>1, <2>2
  <1>6. ASSUME NEW k \in 0 .. n - 1, k \in T PROVE k + 1 \in T
    <2> DEFINE acc == after[k]
               next == after[k + 1]
               b == Layout[c][k + 1]
    <2>1. /\ k + 1 \in Blocks(c) /\ k + 1 \in 0 .. n /\ k + 1 - 1 = k /\ k \in 0 .. n
          /\ \A i \in 1 .. k + 1 : i \in 1 .. k \/ i = k + 1
          /\ \A i \in 1 .. k : i \in 1 .. k + 1
          /\ k + 1 \in 1 .. k + 1
          /\ \A i \in Blocks(c) : (i > k <=> i > k + 1 \/ i = k + 1) /\ ~(k + 1 > k + 1)
          /\ \A i \in Blocks(c) : i > k + 1 => i # k + 1
      BY <1>1
    <2>2. acc \in Progress(c)
      BY <1>4, <2>1
    <2>3. \/ Passed(acc, next)
          \/ Failed(mode, size, acc, next, b)
          \/ Stored(mode, buffer, size, acc, next, b, k + 1)
      BY <1>2, <1>3, <2>1, <2>2, BlockRead
    <2>4. Went(c, src, size, o, k, acc) \/ Stopped(c, src, size, o, k, acc)
      BY <1>6
    <2>5. CASE Stopped(c, src, size, o, k, acc)
      <3>1. next = acc
        BY <2>3, <2>5 DEF Stopped, Passed, Failed, Stored
      <3>2. Stopped(c, src, size, o, k + 1, next)
        BY <2>1, <2>5, <3>1 DEF Stopped
      <3>. QED  BY <2>1, <3>2
    <2>6. CASE Went(c, src, size, o, k, acc) /\ Failed(mode, size, acc, next, b)
      <3>1. next.fault # "none" /\ next.obj = acc.obj
        BY <2>6 DEF Failed
      <3>2. ~Enough(c, src, size, k + 1)
        <4>1. /\ b.kind # "raw" /\ acc.at + Need(b) > size
              /\ acc.at = wrote[k].size /\ acc.at \in Nat /\ Need(b) \in Nat
          BY <2>1, <2>2, <2>6, BlocksOf, NeedIsPositive DEF Failed, Went, Progress
        <4>2. ~(acc.at + Need(b) <= size)
          BY <4>1
        <4>. QED  BY <2>1, <4>1, <4>2 DEF Enough
      <3>3. UpTo(c, src, size, o, k + 1 - 1, next.obj)
        BY <2>1, <2>6, <3>1 DEF Went
      <3>4. Stopped(c, src, size, o, k + 1, next)
        BY <2>1, <3>1, <3>2, <3>3 DEF Stopped
      <3>. QED  BY <2>1, <3>4
    <2>7. CASE /\ Went(c, src, size, o, k, acc)
               /\ Stored(mode, buffer, size, acc, next, b, k + 1)
      <3>1. PICK g \in Field(b) : /\ next.obj = [acc.obj EXCEPT ![k + 1] = g]
                                  /\ Got(mode, buffer, size, acc.at, b, g, next.at)
        BY <2>7 DEF Stored
      <3>2. acc.at = wrote[k].size /\ UpTo(c, src, size, o, k, acc.obj)
        BY <2>7 DEF Went
      <3>3. src[k + 1] \in Field(b) /\ ProperField(b, src[k + 1])
        BY <2>1 DEF Messages, Proper, ProperField
      <3>4. /\ next.at = wrote[k + 1].size
            /\ \/ SameField(b, src[k + 1], g)
               \/ Sliceable(b) /\ g.n < src[k + 1].n /\ wrote[k + 1].size > size
        BY <1>2, <2>1, <3>1, <3>2, <3>3 DEF Got
      <3>5. Enough(c, src, size, k + 1)
        BY <2>1, <3>1, <3>2 DEF Got, Enough
      <3>6. /\ next.obj[k + 1] = g
            /\ \A i \in Blocks(c) : i # k + 1 => next.obj[i] = acc.obj[i]
        <4>1. acc.obj \in [Blocks(c) -> [rep : StoredAs, n : Nat, v : Nat]]
          BY <2>2 DEF Progress, Messages
        <4>. QED  BY <2>1, <3>1, <4>1
      <3>7. Kept(c, src, size, k + 1, next.obj[k + 1])
        BY <3>4, <3>6 DEF Kept
      <3>8. UpTo(c, src, size, o, k + 1, next.obj)
        BY <2>1, <3>2, <3>6, <3>7 DEF UpTo
      <3>9. Went(c, src, size, o, k + 1, next)
        BY <2>1, <2>7, <3>4, <3>5, <3>8 DEF Went, Stored
      <3>. QED  BY <2>1, <3>9
    <2>8. ~(Went(c, src, size, o, k, acc) /\ Passed(acc, next))
      BY DEF Went, Passed
    <2>. QED  BY <2>3, <2>4, <2>5, <2>6, <2>7, <2>8
  <1>7. 0 .. n \subseteq T
    <2>. HIDE DEF T
    <2>. QED  BY <1>1, <1>5, <1>6, BlockInduction
  <1>. QED  BY <1>7 DEF after, buffer

\* A block that is not there is behind the end of what is there.
LEMMA MissingIsBehind ==
    ASSUME NEW c \in DOMAIN Layout, NEW src \in Messages(c), Proper(c, src),
           NEW size \in Nat, NEW i \in Blocks(c)
    PROVE  /\ Writes(c, src)[i].size \in Nat /\ Serialized(c, src).size \in Nat
           /\ Writes(c, src)[i].size <= Serialized(c, src).size
           /\ ~Enough(c, src, size, i) => Writes(c, src)[i].size > size
  <1> DEFINE wrote == Writes(c, src)
             n == Len(Layout[c])
             b == Layout[c][i]
  <1>1. n \in Nat /\ Blocks(c) = 1 .. n /\ b \in Block
    BY BlocksOf
  <1>2. /\ wrote[i].size = wrote[i - 1].size + Width(b, src[i])
        /\ wrote[i].size \in Nat /\ wrote[i - 1].size \in Nat /\ wrote[n].size \in Nat
        /\ wrote[i].size <= wrote[n].size /\ Serialized(c, src).size = wrote[n].size
    <2>1. i \in 0 .. n /\ i - 1 \in 0 .. n /\ n \in 0 .. n
      BY <1>1
    <2>. QED  BY <2>1, SerializedHolds
  <1>3. Need(b) \in Nat /\ Width(b, src[i]) \in Nat /\ Width(b, src[i]) >= Need(b)
    <2>1. src[i].n \in Nat /\ Need(b) \in Nat
      BY <1>1, NeedIsPositive DEF Messages, Field
    <2>. QED  BY <2>1 DEF Width, Need
  <1>4. ~Enough(c, src, size, i) => wrote[i - 1].size + Need(b) > size
    <2>. HIDE DEF wrote, b
    <2>1. ~(wrote[i - 1].size + Need(b) <= size) => wrote[i - 1].size + Need(b) > size
      BY <1>2, <1>3
    <2>. QED  BY <2>1 DEF Enough, wrote, b
  <1>. HIDE DEF wrote, b, n
  <1>5. ~Enough(c, src, size, i) => wrote[i].size > size
    BY <1>2, <1>3, <1>4
  <1>. QED  BY <1>2, <1>5 DEF wrote

\* The whole buffer is read without exception and means what was sent.
THEOREM WholeIsRead ==
    ASSUME NEW c \in DOMAIN Layout, NEW mode, NEW src \in Messages(c), Proper(c, src),
           NEW o \in Messages(c)
    PROVE  LET buffer == Serialized(c, src)
               result == Deserialized(mode, c, buffer, buffer.size, o)
           IN  /\ result.fault = "none"
               /\ \A i \in Blocks(c) : SameField(Layout[c][i], src[i], result.obj[i])
  <1> DEFINE n == Len(Layout[c])
             buffer == Serialized(c, src)
             size == buffer.size
             result == Deserialized(mode, c, buffer, size, o)
  <1>1. n \in Nat /\ Blocks(c) = 1 .. n /\ n \in 0 .. n
    BY BlocksOf
  <1>2. size \in Nat
    BY <1>1, SerializedHolds
  <1>3. ASSUME NEW i \in Blocks(c)
        PROVE  Enough(c, src, size, i) /\ ~(Writes(c, src)[i].size > size)
    <2>1. /\ Writes(c, src)[i].size \in Nat /\ Writes(c, src)[i].size <= size
          /\ ~Enough(c, src, size, i) => Writes(c, src)[i].size > size
      BY <1>2, MissingIsBehind
    <2>2. \A x \in Nat : x <= size => ~(x > size)
      BY <1>2
    <2>. QED  BY <2>1, <2>2
  <1>4. \/ Went(c, src, size, o, n, result)
        \/ Stopped(c, src, size, o, n, result)
    BY <1>1, <1>2, ReadsWhatWasWritten DEF Deserialized
  <1>. HIDE DEF size, result
  <1>5. Went(c, src, size, o, n, result)
    BY <1>1, <1>3, <1>4 DEF Stopped
  <1>6. \A i \in Blocks(c) : ~(i > n)
    BY <1>1
  <1>7. /\ result.fault = "none"
        /\ \A i \in Blocks(c) : SameField(Layout[c][i], src[i], result.obj[i])
    BY <1>3, <1>5, <1>6 DEF Went, UpTo, Kept
  <1>. QED  BY <1>7 DEF result, size

\* A part of the buffer is read without exception only if it lacks bytes of the
\* payload of Serial.
THEOREM CutIsNoticed ==
    ASSUME NEW c \in DOMAIN Layout, NEW mode, NEW src \in Messages(c), Proper(c, src),
           NEW o \in Messages(c), NEW size \in Nat, size < Serialized(c, src).size,
           Deserialized(mode, c, Serialized(c, src), size, o).fault = "none"
    PROVE  LET new == Deserialized(mode, c, Serialized(c, src), size, o).obj
           IN  /\ c = "Serial"
               /\ \A i \in Blocks(c) :
                    \/ SameField(Layout[c][i], src[i], new[i])
                    \/ i = Len(Layout[c]) /\ new[i].n < src[i].n
  <1> DEFINE n == Len(Layout[c])
             wrote == Writes(c, src)
             b == Layout[c][n]
             result == Deserialized(mode, c, Serialized(c, src), size, o)
  <1>1. n \in Nat \ {0} /\ Blocks(c) = 1 .. n /\ n \in 1 .. n /\ n \in 0 .. n
    BY BlocksOf
  <1>2. /\ wrote[n].size = wrote[n - 1].size + Width(b, src[n])
        /\ wrote[n - 1].size \in Nat /\ wrote[n].size \in Nat /\ wrote[n].size > size
        /\ Need(b) \in Nat
        /\ \A i \in 1 .. n - 1 : wrote[i].size <= wrote[n - 1].size /\ wrote[i].size \in Nat
    <2>1. n - 1 \in 0 .. n /\ \A i \in 1 .. n - 1 : i \in 0 .. n /\ i \in 0 .. n - 1
      BY <1>1
    <2>2. Serialized(c, src).size = wrote[n].size
      BY SerializedHolds
    <2>3. Need(b) \in Nat
      BY <1>1, BlocksOf, NeedIsPositive
    <2>. HIDE DEF n, b
    <2>4. wrote[n].size > size
      BY <2>2, SerializedHolds, <1>1 DEF n
    <2>. QED  BY <1>1, <2>1, <2>3, <2>4, SerializedHolds DEF n, b
  <1>3. Went(c, src, size, o, n, result)
    <2>1. \/ Went(c, src, size, o, n, result)
          \/ Stopped(c, src, size, o, n, result)
      BY <1>1, ReadsWhatWasWritten DEF Deserialized
    <2>. QED  BY <2>1 DEF Stopped
  <1>4. Enough(c, src, size, n)
    BY <1>1, <1>3 DEF Went
  <1>5. c = "Serial" /\ b.kind = "data"
    <2>1. IF c = "Serial" THEN b.kind = "data" ELSE b.kind \in Whole
      BY LayoutShape DEF WholeLayouts, DataLayouts, Ended
    <2>2. ASSUME b.kind \in Whole PROVE FALSE
      <3>1. Width(b, src[n]) = Need(b) /\ wrote[n - 1].size + Need(b) <= size
        BY <1>4, <2>2 DEF Whole, Width, Need, Enough
      <3>. HIDE DEF n, b, wrote
      <3>. QED  BY <1>2, <3>1
    <2>. QED  BY <2>1, <2>2
  <1>6. \A i \in 1 .. n - 1 : ~(wrote[i].size > size)
    <2>1. wrote[n - 1].size + Need(b) <= size
      BY <1>4, <1>5 DEF Enough
    <2>. HIDE DEF n, b, wrote
    <2>. QED  BY <1>2, <2>1
  <1>7. \A i \in Blocks(c) : ~(i > n) /\ (i \in 1 .. n - 1 \/ i = n)
    BY <1>1
  <1>. HIDE DEF result
  <1>8. \A i \in Blocks(c) : \/ SameField(Layout[c][i], src[i], result.obj[i])
                             \/ i = n /\ result.obj[i].n < src[i].n
    BY <1>3, <1>6, <1>7 DEF Went, UpTo, Kept
  <1>. QED  BY <1>5, <1>8 DEF result

\* When reading raises an exception, the blocks before it are those sent, slices
\* perhaps short, and the others have not been touched.
LEMMA TornReads ==
    ASSUME NEW c \in DOMAIN Layout, NEW mode, NEW src \in Messages(c), Proper(c, src),
           NEW o \in Messages(c), NEW size \in Nat,
           Deserialized(mode, c, Serialized(c, src), size, o).fault # "none"
    PROVE  LET new == Deserialized(mode, c, Serialized(c, src), size, o).obj
           IN  \E k \in Blocks(c) : \A i \in Blocks(c) :
                 IF i >= k THEN new[i] = o[i]
                 ELSE \/ SameField(Layout[c][i], src[i], new[i])
                      \/ Sliceable(Layout[c][i]) /\ new[i].n < src[i].n
  <1> DEFINE n == Len(Layout[c])
             result == Deserialized(mode, c, Serialized(c, src), size, o)
  <1>1. n \in Nat /\ Blocks(c) = 1 .. n /\ n \in 0 .. n
    BY BlocksOf
  <1>2. Stopped(c, src, size, o, n, result)
    <2>1. \/ Went(c, src, size, o, n, result)
          \/ Stopped(c, src, size, o, n, result)
      BY <1>1, ReadsWhatWasWritten DEF Deserialized
    <2>. QED  BY <2>1 DEF Went
  <1>3. PICK k \in 1 .. n : UpTo(c, src, size, o, k - 1, result.obj)
    BY <1>2 DEF Stopped
  <1>4. k \in Blocks(c) /\ \A i \in Blocks(c) : i > k - 1 <=> i >= k
    BY <1>1
  <1>. HIDE DEF result
  <1>5. \A i \in Blocks(c) :
          IF i >= k THEN result.obj[i] = o[i]
          ELSE \/ SameField(Layout[c][i], src[i], result.obj[i])
               \/ Sliceable(Layout[c][i]) /\ result.obj[i].n < src[i].n
    BY <1>3, <1>4 DEF UpTo, Kept
  <1>. QED  BY <1>4, <1>5 DEF result

-----------------------------------------------------------------------------
(* The program that uses them.                                             *)

\* What a program assigns is a field of its block.
LEMMA AssignableFields ==
    ASSUME NEW b \in Block
    PROVE  Default(b) \in Field(b) /\ Assignable(b) \subseteq Field(b)
  <1>1. /\ b.kind \in BlockKinds /\ b.count \in Nat
        /\ b.kind \notin {"text", "data"} => b.count > 0
    BY DEF Block
  <1>2. Default(b) \in Field(b)
    BY <1>1 DEF Default, Field, StoredAs, BlockKinds
  <1>3. ASSUME NEW f \in Assignable(b) PROVE f \in Field(b)
    <2>1. /\ f \in [rep : Reps(b.kind), n : Counts(b),
                    v : IF b.kind = "flags" THEN 0 .. 2 ELSE 0 .. 1]
          /\ f.n = 0 => f.v = 0
      BY DEF Assignable
    <2>2. Reps(b.kind) \subseteq StoredAs
      BY DEF Reps, StoredAs
    <2>3. Counts(b) \subseteq Nat /\ (b.kind \in {"numbers", "flags"} => Counts(b) = {1})
      BY <1>1, TextAssumption DEF Counts
    <2>4. f.n \in Nat /\ f.v \in Nat /\ f.rep \in StoredAs
      BY <2>1, <2>2, <2>3
    <2>5. f = [rep |-> f.rep, n |-> f.n, v |-> f.v]
      BY <2>1
    <2>6. f \in [rep : StoredAs, n : Nat, v : Nat]
      BY <2>4, <2>5
    <2>. QED  BY <2>1, <2>3, <2>6 DEF Field
  <1>. QED  BY <1>2, <1>3

\* A new message is a message.
LEMMA ConstructedIs == ASSUME NEW c \in DOMAIN Layout PROVE Constructed(c) \in Messages(c)
  BY BlocksOf, AssignableFields DEF Constructed, Messages, Field

\* A message is written without exception exactly if each of its blocks is.
LEMMA SerializesIf ==
    ASSUME NEW c \in DOMAIN Layout, NEW mode, NEW o
    PROVE  SerializeFault(mode, c, o) = "none"
             <=> \A i \in Blocks(c) : WriteFault(mode, Layout[c][i], o[i]) = "none"
  <1> DEFINE bad == {i \in Blocks(c) : WriteFault(mode, Layout[c][i], o[i]) # "none"}
  <1>1. ASSUME bad # {} PROVE Min(bad) \in bad
    <2>1. bad \subseteq Nat
      BY BlocksOf
    <2>. HIDE DEF bad
    <2>2. \E x \in bad : \A y \in bad : x <= y
      BY <1>1, <2>1, LeastOf
    <2>. QED  BY <2>2 DEF Min
  <1>2. CASE bad = {}
    BY <1>2 DEF SerializeFault
  <1>3. CASE bad # {}
    <2>1. SerializeFault(mode, c, o)
            = WriteFault(mode, Layout[c][Min(bad)], o[Min(bad)])
      BY <1>3 DEF SerializeFault
    <2>. QED  BY <1>1, <1>3, <2>1
  <1>. QED  BY <1>2, <1>3

\* No more arrives than was sent.
LEMMA SizesUpTo == Tiled(wire) => Sizes \subseteq 0 .. wire.size
  <1>. SUFFICES ASSUME Tiled(wire), NEW size \in Sizes PROVE size \in 0 .. wire.size
    OBVIOUS
  <1>1. wire.size \in Nat /\ wire.runs \subseteq [at : Nat, width : Nat, v : Nat]
    BY DEF Tiled, Buffer
  <1>2. \A run \in wire.runs : run.at + run.width \in 0 .. wire.size
    <2>. SUFFICES ASSUME NEW run \in wire.runs PROVE run.at + run.width \in 0 .. wire.size
      OBVIOUS
    <2>1. run.at \in Nat /\ run.width \in Nat /\ run.at + run.width <= wire.size
      BY <1>1 DEF Tiled
    <2>. QED  BY <1>1, <2>1
  <1> DEFINE ends == {run.at + run.width : run \in wire.runs}
  <1>3. ends \subseteq 0 .. wire.size
    BY <1>2
  <1>4. size \in {0} \cup ends \cup {e - 1 : e \in ends \ {0}}
    BY DEF Sizes
  <1>. HIDE DEF ends
  <1>. QED  BY <1>1, <1>3, <1>4

Outcomes ==
    {"none", "AttributeError", "SerializationError", "DeserializationError", "ValueError"}

TypeOK ==
    /\ class \in DOMAIN Layout
    /\ obj \in Messages(class)
    /\ source \in Messages(class)
    /\ origin \in Modes \cup {"made"}
    /\ received \in {"none", "whole", "cut"}
    /\ outcome \in Outcomes
    /\ edits \in 0 .. MaxEdits

\* What has been published was made of source.
WireIsOfSource == wire = Empty \/ wire = Serialized(class, source)

\* What has just been read is stored as the method stores it.
StoredAsRead ==
    received # "none" /\ outcome = "none" =>
        /\ origin \in Modes
        /\ \A i \in Blocks(class) : ReadBack(origin, Layout[class][i], obj[i])

CodecInv == TypeOK /\ WireIsOfSource /\ StoredAsRead /\ ArrivesAsSent /\ NoticesShort

\* The exceptions are those of the methods.
LEMMA Faults ==
    ASSUME NEW mode, NEW c \in DOMAIN Layout, NEW o
    PROVE  SerializeFault(mode, c, o) \in Outcomes
  BY Zenon DEF SerializeFault, WriteFault, Outcomes

\* The invariant holds of a program that has just begun.
LEMMA CodecInit == Init => CodecInv
  <1>. SUFFICES ASSUME Init PROVE CodecInv
    OBVIOUS
  <1>1. TypeOK
    BY ConstructedIs, EditsAssumption DEF Init, TypeOK, Outcomes
  <1>. QED
    BY <1>1 DEF Init, CodecInv, WireIsOfSource, StoredAsRead, ArrivesAsSent, NoticesShort

\* Assigning a field forgets what has been read.
LEMMA AssignKeeps == ASSUME CodecInv, Assign PROVE CodecInv'
  <1>0. PICK i \in Blocks(class) : \E f \in Assignable(Layout[class][i]) :
           obj' = [obj EXCEPT ![i] = f]
    BY DEF Assign
  <1>1. PICK f \in Assignable(Layout[class][i]) : obj' = [obj EXCEPT ![i] = f]
    BY <1>0
  <1>2. /\ class \in DOMAIN Layout /\ obj \in Messages(class)
        /\ edits \in 0 .. MaxEdits /\ edits < MaxEdits
    BY DEF CodecInv, TypeOK, Assign
  <1>3. f \in Field(Layout[class][i])
    BY <1>2, BlocksOf, AssignableFields
  <1>4. obj' \in Messages(class)
    BY <1>1, <1>2, <1>3, MessageExcept
  <1>5. edits' \in 0 .. MaxEdits
    BY <1>2, EditsAssumption DEF Assign
  <1>6. /\ class' = class /\ wire' = wire /\ source' = source /\ origin' = "made"
        /\ received' = "none" /\ outcome' = "none"
    BY DEF Assign
  <1>7. TypeOK'
    BY <1>4, <1>5, <1>6 DEF CodecInv, TypeOK, Outcomes
  <1>. QED
    BY <1>6, <1>7 DEF CodecInv, WireIsOfSource, StoredAsRead, ArrivesAsSent, NoticesShort

\* Publishing replaces the buffer and its source together, or neither.
LEMMA PublishKeeps == ASSUME CodecInv, NEW mode \in Modes, Publish(mode) PROVE CodecInv'
  <1>1. /\ class' = class /\ obj' = obj /\ origin' = origin /\ edits' = edits
        /\ received' = "none" /\ outcome' = SerializeFault(mode, class, obj)
        /\ \/ wire' = Serialized(class, obj) /\ source' = obj
           \/ wire' = wire /\ source' = source
    BY DEF Publish
  <1>2. TypeOK'
    BY <1>1, Faults DEF CodecInv, TypeOK
  <1>3. WireIsOfSource'
    BY <1>1 DEF CodecInv, WireIsOfSource
  <1>. QED  BY <1>1, <1>2, <1>3 DEF CodecInv, StoredAsRead, ArrivesAsSent, NoticesShort

\* What a received buffer is, and what is made of it.
LEMMA ReceiveDoes ==
    ASSUME CodecInv, wire # Empty, NEW mode \in Modes, NEW size \in Sizes,
           Receive(mode, size)
    PROVE  LET result == Deserialized(mode, class, wire, size, obj)
           IN  /\ wire = Serialized(class, source) /\ Tiled(wire)
               /\ size \in Nat /\ wire.size \in Nat /\ size <= wire.size
               /\ result \in Progress(class)
               /\ result.fault = "none" =>
                    \A i \in Blocks(class) : ReadBack(mode, Layout[class][i], result.obj[i])
               /\ obj' = result.obj /\ outcome' = result.fault
  <1>1. class \in DOMAIN Layout /\ source \in Messages(class) /\ obj \in Messages(class)
    BY DEF CodecInv, TypeOK
  <1>2. wire = Serialized(class, source)
    BY DEF CodecInv, WireIsOfSource
  <1>3. /\ Len(Layout[class]) \in 0 .. Len(Layout[class])
        /\ Blocks(class) = 1 .. Len(Layout[class])
    BY <1>1, BlocksOf
  <1>4. Tiled(wire)
    BY <1>1, <1>2, <1>3, WritesTile DEF Serialized
  <1>5. wire.size \in Nat
    BY <1>4 DEF Tiled, Buffer
  <1>6. size \in Nat /\ size <= wire.size
    BY <1>4, <1>5, SizesUpTo
  <1> DEFINE result == Deserialized(mode, class, wire, size, obj)
  <1>7. /\ result \in Progress(class)
        /\ result.fault = "none" =>
             \A i \in Blocks(class) : ReadBack(mode, Layout[class][i], result.obj[i])
    BY <1>1, <1>3, <1>4, <1>6, ReadsType DEF Deserialized
  <1>8. obj' = result.obj /\ outcome' = result.fault
    BY DEF Receive
  <1>. QED  BY <1>2, <1>4, <1>5, <1>6, <1>7, <1>8

\* Receiving reads what was sent, or notices that it cannot.
LEMMA ReceiveKeeps ==
    ASSUME CodecInv, wire # Empty, NEW mode \in Modes, NEW size \in Sizes,
           Receive(mode, size)
    PROVE  CodecInv'
  <1> DEFINE result == Deserialized(mode, class, wire, size, obj)
  <1>1. class \in DOMAIN Layout /\ source \in Messages(class) /\ obj \in Messages(class)
    BY DEF CodecInv, TypeOK
  <1>2. /\ class' = class /\ wire' = wire /\ source' = source /\ edits' = edits
        /\ origin' = mode /\ received' = IF size = wire.size THEN "whole" ELSE "cut"
    BY DEF Receive
  <1>3. /\ wire = Serialized(class, source)
        /\ size \in Nat /\ wire.size \in Nat /\ size <= wire.size
        /\ result \in Progress(class)
        /\ result.fault = "none" =>
             \A i \in Blocks(class) : ReadBack(mode, Layout[class][i], result.obj[i])
        /\ obj' = result.obj /\ outcome' = result.fault
    BY ReceiveDoes
  <1>4. ASSUME size = wire.size, Proper(class, source)
        PROVE  /\ result.fault = "none"
               /\ \A i \in Blocks(class) :
                    SameField(Layout[class][i], source[i], result.obj[i])
    BY <1>1, <1>3, <1>4, WholeIsRead
  <1>5. ASSUME size # wire.size, Proper(class, source), result.fault = "none"
        PROVE  /\ class = "Serial"
               /\ \A i \in Blocks(class) :
                    \/ SameField(Layout[class][i], source[i], result.obj[i])
                    \/ i = Len(Layout[class]) /\ result.obj[i].n < source[i].n
    <2>1. size < Serialized(class, source).size
      BY <1>3, <1>5
    <2>. QED  BY <1>1, <1>3, <1>5, <2>1, CutIsNoticed
  <1>. HIDE DEF result
  <1>6. TypeOK'
    <2>1. result.obj \in Messages(class) /\ result.fault \in Outcomes
      BY <1>3 DEF Progress, Outcomes
    <2>. QED  BY <1>2, <1>3, <2>1 DEF CodecInv, TypeOK
  <1>7. WireIsOfSource'
    BY <1>2, <1>3 DEF WireIsOfSource
  <1>8. StoredAsRead'
    BY <1>2, <1>3 DEF StoredAsRead
  <1>9. ArrivesAsSent'
    BY <1>2, <1>3, <1>4 DEF ArrivesAsSent, Proper, Blocks
  <1>10. NoticesShort'
    BY <1>2, <1>3, <1>5 DEF NoticesShort, Proper, Blocks
  <1>. QED  BY <1>6, <1>7, <1>8, <1>9, <1>10 DEF CodecInv

\* Every reachable state satisfies the invariant: the fields have the shapes
\* their classes declare, the buffer is the one made of source, and what has been
\* read means what was sent or is known to be short.
THEOREM CodecInvariant == Spec => []CodecInv
  <1>1. CodecInv /\ [Next]_vars => CodecInv'
    <2>. SUFFICES ASSUME CodecInv, [Next]_vars PROVE CodecInv'
      OBVIOUS
    <2>1. CASE Assign
      BY <2>1, AssignKeeps
    <2>2. ASSUME NEW mode \in Modes, Publish(mode) PROVE CodecInv'
      BY <2>2, PublishKeeps
    <2>3. ASSUME wire # Empty, NEW mode \in Modes, NEW size \in Sizes, Receive(mode, size)
          PROVE  CodecInv'
      BY <2>3, ReceiveKeeps
    <2>4. CASE UNCHANGED vars
      <3>1. UNCHANGED <<class, obj, wire, source, origin, received, outcome, edits>>
        BY <2>4 DEF vars
      <3>. QED
        BY <3>1 DEF CodecInv, TypeOK, WireIsOfSource, StoredAsRead, ArrivesAsSent,
                    NoticesShort, Proper, Blocks
    <2>. QED  BY <2>1, <2>2, <2>3, <2>4 DEF Next
  <1>. QED  BY CodecInit, <1>1, PTL DEF Spec

\* A message whose arrays have their declared sizes is read by either method as
\* it was sent by either, for any number of edits and relays and any length of
\* its strings.
THEOREM WhatIsSentArrives == Spec => []ArrivesAsSent
  <1>1. CodecInv => ArrivesAsSent
    BY DEF CodecInv
  <1>. QED  BY CodecInvariant, <1>1, PTL

\* A buffer that ends early is noticed by an exception, except at the end of the
\* payload of Serial.
THEOREM ShortIsNoticed == Spec => []NoticesShort
  <1>1. CodecInv => NoticesShort
    BY DEF CodecInv
  <1>. QED  BY CodecInvariant, <1>1, PTL

\* A received message can be published again by the plain method, and by the one
\* for numpy exactly if it came by it or has no array.
THEOREM ReceivedIsForwarded == Spec => []ForwardsWhatItReceived
  <1>1. ASSUME NEW b \in Block, NEW f, NEW from \in Modes, ReadBack(from, b, f),
               NEW mode \in Modes
        PROVE  WriteFault(mode, b, f) = "none"
                 <=> mode = "plain" \/ from = "numpy" \/ b.kind # "array"
    <2>1. b.kind \in BlockKinds
      BY DEF Block
    <2>2. CASE b.kind = "array"
      BY <1>1, <2>2 DEF ReadBack, WriteFault, Refused, Modes
    <2>3. CASE b.kind # "array"
      BY <1>1, <2>1, <2>3 DEF ReadBack, WriteFault, Refused, BlockKinds
    <2>. QED  BY <2>2, <2>3
  <1>2. CodecInv => ForwardsWhatItReceived
    <2>. SUFFICES ASSUME CodecInv, received # "none", outcome = "none", NEW mode \in Modes
                  PROVE  SerializeFault(mode, class, obj) = "none" <=>
                           \/ mode = "plain"
                           \/ origin = "numpy"
                           \/ \A i \in Blocks(class) : Layout[class][i].kind # "array"
      BY DEF ForwardsWhatItReceived
    <2>1. /\ class \in DOMAIN Layout /\ origin \in Modes
          /\ \A i \in Blocks(class) : ReadBack(origin, Layout[class][i], obj[i])
      BY DEF CodecInv, TypeOK, StoredAsRead
    <2>2. \A i \in Blocks(class) :
            WriteFault(mode, Layout[class][i], obj[i]) = "none"
              <=> mode = "plain" \/ origin = "numpy" \/ Layout[class][i].kind # "array"
      BY <1>1, <2>1, BlocksOf
    <2>. QED  BY <2>1, <2>2, SerializesIf
  <1>. QED  BY CodecInvariant, <1>2, PTL

\* An exception while reading leaves no field of the new message behind one of
\* the old.
THEOREM TornMessagesArePrefixes == Spec => TornIsPrefix
  <1> DEFINE Prefix ==
               outcome' # "none" /\ obj' # obj /\ Proper(class, source) =>
                 \E k \in Blocks(class) : \A i \in Blocks(class) :
                   IF i >= k THEN obj'[i] = obj[i]
                   ELSE \/ SameField(Layout[class][i], source[i], obj'[i])
                        \/ Sliceable(Layout[class][i]) /\ obj'[i].n < source[i].n
  <1>1. ASSUME CodecInv, [Next]_vars PROVE [Prefix]_vars
    <2>. SUFFICES ASSUME outcome' # "none", obj' # obj, Proper(class, source)
                  PROVE  Prefix
      OBVIOUS
    <2>1. ASSUME Assign PROVE FALSE
      BY <2>1 DEF Assign
    <2>2. ASSUME NEW mode \in Modes, Publish(mode) PROVE FALSE
      BY <2>2 DEF Publish
    <2>3. ASSUME wire # Empty, NEW mode \in Modes, NEW size \in Sizes, Receive(mode, size)
          PROVE  Prefix
      <3>1. class \in DOMAIN Layout /\ source \in Messages(class) /\ obj \in Messages(class)
        BY <1>1 DEF CodecInv, TypeOK
      <3>2. /\ wire = Serialized(class, source) /\ size \in Nat
            /\ obj' = Deserialized(mode, class, wire, size, obj).obj
            /\ outcome' = Deserialized(mode, class, wire, size, obj).fault
        BY <1>1, <2>3, ReceiveDoes
      <3>. QED  BY <3>1, <3>2, TornReads
    <2>4. ASSUME UNCHANGED vars PROVE FALSE
      BY <2>4 DEF vars
    <2>. QED  BY <1>1, <2>1, <2>2, <2>3, <2>4 DEF Next
  <1>2. CodecInv /\ [Next]_vars => [Prefix]_vars
    BY <1>1
  <1>. QED  BY CodecInvariant, <1>2, PTL DEF Spec, TornIsPrefix

=============================================================================
