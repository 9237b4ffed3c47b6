-------------------------- MODULE KernelFile_proofs --------------------------
(***************************************************************************)
(* Proofs about KernelFile, for any kernels, sizes of the buffers and of   *)
(* the table of files, and any number of boots, reads, seeks and failures. *)
(***************************************************************************)
EXTENDS KernelFile, FiniteSetTheorems, SequenceTheorems, TLAPS

(* Sets of numbers have a least member, finite ones a greatest.            *)
LEMMA LeastOf ==
    ASSUME NEW S \in SUBSET Nat, S # {}
    PROVE  /\ Min(S) \in S
           /\ \A m \in S : Min(S) <= m
  <1> DEFINE Below == {0 .. m : m \in S}
  <1>1. Below \subseteq FiniteSubsetsOf(Nat) /\ Below # {}
    <2>1. \A m \in S : 0 .. m \subseteq Nat /\ IsFiniteSet(0 .. m)
      BY FS_Interval
    <2> QED
      BY <2>1 DEF FiniteSubsetsOf
  <1>2. PICK T \in Below : \A U \in Below : ~(<<U, T>> \in StrictSubsetOrdering(Nat))
    <2> HIDE DEF Below
    <2> QED
      BY <1>1, FS_StrictSubsetOrderingWellFounded, WFMin
  <1>3. PICK x \in S : T = 0 .. x
    BY <1>2
  <1>4. ASSUME NEW y \in S, y < x
        PROVE  FALSE
    <2>1. 0 .. y \subseteq 0 .. x /\ x \in 0 .. x /\ x \notin 0 .. y
      BY <1>4
    <2>2. <<0 .. y, T>> \in StrictSubsetOrdering(Nat)
      BY <1>3, <2>1 DEF StrictSubsetOrdering
    <2> QED
      BY <1>2, <2>2
  <1>5. \A y \in S : x <= y
    BY <1>4
  <1> QED
    BY <1>5 DEF Min

LEMMA LesserOf ==
    ASSUME NEW a \in Int, NEW b \in Int
    PROVE  Min({a, b}) = IF a <= b THEN a ELSE b
  <1> DEFINE m == IF a <= b THEN a ELSE b
  <1>1. m \in {a, b} /\ \A x \in {a, b} : m <= x
    OBVIOUS
  <1>2. \A x \in {a, b} : (\A y \in {a, b} : x <= y) => x = m
    OBVIOUS
  <1> QED
    BY <1>1, <1>2 DEF Min

LEMMA ConcatAt ==
    ASSUME NEW s \in Seq(UnitType), NEW t \in Seq(UnitType), NEW v, v = s \o t
    PROVE  /\ v \in Seq(UnitType) /\ Len(v) = Len(s) + Len(t)
           /\ \A i \in 1 .. Len(s) : v[i] = s[i]
           /\ \A i \in 1 .. Len(t) : v[Len(s) + i] = t[i]
  <1>1. s \o t \in Seq(UnitType) /\ Len(s \o t) = Len(s) + Len(t)
    BY ConcatProperties
  <1>2. \A i \in 1 .. Len(s) : (s \o t)[i] = s[i]
    BY ConcatProperties
  <1>3. \A i \in 1 .. Len(t) : (s \o t)[Len(s) + i] = t[i]
    BY ConcatProperties
  <1> QED
    BY <1>1, <1>2, <1>3
-----------------------------------------------------------------------------
(* The units of a file.                                                    *)

Codes == File[file].size \div Ratio     \* compressed units

LEMMA Sizes ==
    ASSUME place \in Places
    PROVE  /\ file \in Files /\ Size \in Nat \ {0} /\ File[file].rest \in Nat
           /\ Ratio \in Nat \ {0} /\ Z_BUFSIZE \in Nat \ {0} /\ DUMMYBUFSIZE \in Nat \ {0}
           /\ File[file].gz \in BOOLEAN /\ Codes \in Nat
           /\ File[file].gz => /\ Codes # 0 /\ Codes * Ratio = Size
                               /\ \/ place[1] = "net"
                                  \/ Z_BUFSIZE <= Codes + 4 + File[file].rest
  <1>1. file \in Files /\ (place[1] = "net" \/ place = <<"disk", file>>)
    BY PlacesAssumption DEF file
  <1>2. /\ Size \in Nat \ {0} /\ File[file].rest \in Nat /\ File[file].gz \in BOOLEAN
        /\ File[file].gz => Size % Ratio = 0
    BY <1>1, FilesAssumption DEF Size
  <1>3. Ratio \in Nat \ {0} /\ Z_BUFSIZE \in Nat \ {0} /\ DUMMYBUFSIZE \in Nat \ {0}
    BY SizesAssumption
  <1>4. Codes = Size \div Ratio
    BY DEF Codes, Size
  <1>5. Codes \in Nat /\ (Size % Ratio = 0 => Codes * Ratio = Size)
    <2> HIDE DEF Size, Codes
    <2> QED
      BY <1>2, <1>3, <1>4
  <1>6. File[file].gz => place[1] = "net" \/ Z_BUFSIZE <= Codes + 4 + File[file].rest
    BY <1>1, LongAssumption DEF Codes
  <1>7. Codes * Ratio = Size => Codes # 0
    BY <1>2, <1>3, <1>5
  <1> QED
    BY <1>1, <1>2, <1>3, <1>5, <1>6, <1>7

Length == IF File[file].gz THEN Codes + 4 + File[file].rest ELSE Size + File[file].rest

LEMMA UnitsAre ==
    ASSUME place \in Places
    PROVE  LET u == Units(file)
           IN  /\ u \in Seq(UnitType) /\ Len(u) = Length /\ Length \in Nat \ {0}
               /\ ~File[file].gz => \A i \in 1 .. Size : u[i] = Kernel(file, i - 1)
               /\ File[file].gz =>
                    /\ u[1] = Unit("magic", file, 0) /\ u[2] = Unit("header", file, 0)
                    /\ \A i \in 1 .. Codes : u[i + 2] = Unit("data", file, i - 1)
                    /\ u[Codes + 3] = Unit("crc", file, 0)
  <1> DEFINE f == file
             Padding == [i \in 1 .. File[f].rest |-> Unit("padding", f, 0)]
             head == <<Unit("magic", f, 0), Unit("header", f, 0)>>
             data == [i \in 1 .. Codes |-> Unit("data", f, i - 1)]
             tail == <<Unit("crc", f, 0), Unit("size", f, 0)>>
             plain == [i \in 1 .. File[f].size |-> Kernel(f, i - 1)]
  <1>0. /\ f \in Files /\ Size \in Nat \ {0} /\ File[f].rest \in Nat /\ Codes \in Nat
        /\ Length \in Nat \ {0} /\ Size = File[f].size
    BY Sizes DEF Length, Size
  <1>1. \A k \in {"padding", "magic", "header", "data", "crc", "size", "kernel"}, n \in Nat :
            Unit(k, f, n) \in UnitType
    BY <1>0 DEF Unit, UnitType
  <1>2. Padding \in Seq(UnitType) /\ Len(Padding) = File[f].rest
    BY <1>0, <1>1
  <1>3. head \in Seq(UnitType) /\ Len(head) = 2 /\ head[1] = Unit("magic", f, 0)
        /\ head[2] = Unit("header", f, 0)
    BY <1>1
  <1>4. data \in Seq(UnitType) /\ Len(data) = Codes
        /\ \A i \in 1 .. Codes : data[i] = Unit("data", f, i - 1)
    BY <1>0, <1>1
  <1>5. tail \in Seq(UnitType) /\ Len(tail) = 2 /\ tail[1] = Unit("crc", f, 0)
    BY <1>1
  <1>6. plain \in Seq(UnitType) /\ Len(plain) = Size
        /\ \A i \in 1 .. Size : plain[i] = Kernel(f, i - 1)
    BY <1>0, <1>1 DEF Kernel
  <1>7. CASE ~File[f].gz
    <2>1. Units(f) = plain \o Padding
      BY <1>7 DEF Units
    <2> HIDE DEF plain, Padding, f
    <2>c. /\ Units(f) \in Seq(UnitType) /\ Len(Units(f)) = Len(plain) + Len(Padding)
          /\ \A i \in 1 .. Len(plain) : Units(f)[i] = plain[i]
      <3>1. plain \in Seq(UnitType) /\ Padding \in Seq(UnitType) /\ Units(f) = plain \o Padding
        BY <2>1, <1>2, <1>6
      <3> QED
        BY <3>1, ConcatAt
    <2>2. /\ Units(f) \in Seq(UnitType) /\ Len(Units(f)) = Size + File[f].rest
          /\ \A i \in 1 .. Size : Units(f)[i] = plain[i]
      BY <2>c, <1>0, <1>2, <1>6
    <2> QED
      BY <1>0, <1>6, <1>7, <2>1, <2>2 DEF Length, f
  <1>8. CASE File[f].gz
    <2> DEFINE one == head \o data
               two == one \o tail
    <2>1. Units(f) = two \o Padding
      BY <1>8 DEF Units, Codes
    <2> HIDE DEF head, data, tail, Padding, f
    <2>o. one = head \o data
      OBVIOUS
    <2>t. two = one \o tail
      OBVIOUS
    <2> HIDE DEF one, two
    <2>c. /\ one \in Seq(UnitType) /\ Len(one) = Len(head) + Len(data)
          /\ \A i \in 1 .. Len(head) : one[i] = head[i]
          /\ \A i \in 1 .. Len(data) : one[Len(head) + i] = data[i]
      <3>1. head \in Seq(UnitType) /\ data \in Seq(UnitType) /\ one = head \o data
        BY <2>o, <1>3, <1>4
      <3> QED
        BY <3>1, ConcatAt
    <2>2. /\ one \in Seq(UnitType) /\ Len(one) = 2 + Codes
          /\ one[1] = head[1] /\ one[2] = head[2]
          /\ \A i \in 1 .. Codes : one[2 + i] = data[i]
      BY <2>c, <1>0, <1>3, <1>4
    <2>3. /\ two \in Seq(UnitType) /\ Len(two) = Codes + 4
          /\ \A i \in 1 .. Codes + 2 : two[i] = one[i]
          /\ two[Codes + 3] = tail[1]
      <3>1. /\ two \in Seq(UnitType) /\ Len(two) = Len(one) + Len(tail)
            /\ \A i \in 1 .. Len(one) : two[i] = one[i]
            /\ \A i \in 1 .. Len(tail) : two[Len(one) + i] = tail[i]
        <4>1. one \in Seq(UnitType) /\ tail \in Seq(UnitType) /\ two = one \o tail
          BY <2>2, <2>t, <1>5
        <4> QED
          BY <4>1, ConcatAt
      <3>2. Len(one) + 1 = Codes + 3 /\ 1 \in 1 .. Len(tail)
        BY <1>0, <1>5, <2>2
      <3> QED
        BY <3>1, <3>2, <1>0, <1>5, <2>2
    <2>p. /\ Units(f) \in Seq(UnitType) /\ Len(Units(f)) = Len(two) + Len(Padding)
          /\ \A i \in 1 .. Len(two) : Units(f)[i] = two[i]
      <3>1. two \in Seq(UnitType) /\ Padding \in Seq(UnitType) /\ Units(f) = two \o Padding
        BY <1>2, <2>1, <2>3
      <3> QED
        BY <3>1, ConcatAt
    <2>4. /\ Units(f) \in Seq(UnitType) /\ Len(Units(f)) = Codes + 4 + File[f].rest
          /\ \A i \in 1 .. Codes + 4 : Units(f)[i] = two[i]
      BY <1>0, <1>2, <2>3, <2>p
    <2>5. \A i \in 1 .. Codes + 2 : Units(f)[i] = one[i]
      BY <1>0, <2>1, <2>3, <2>4
    <2>6. Units(f)[1] = head[1] /\ Units(f)[2] = head[2] /\ Units(f)[Codes + 3] = tail[1]
      BY <1>0, <2>1, <2>2, <2>3, <2>4, <2>5
    <2>7. \A i \in 1 .. Codes : Units(f)[i + 2] = data[i]
      <3> TAKE i \in 1 .. Codes
      <3>1. i + 2 \in 1 .. Codes + 2 /\ i + 2 = 2 + i
        BY <1>0
      <3> QED
        BY <3>1, <2>5, <2>2
    <2> QED
      BY <1>0, <1>3, <1>4, <1>5, <1>8, <2>1, <2>4, <2>6, <2>7 DEF Length, f
  <1> QED
    BY <1>7, <1>8

LEMMA UnitAtIs ==
    ASSUME place \in Places, NEW i \in Int
    PROVE  /\ UnitAt(i) \in UnitType
           /\ ~File[file].gz /\ i \in 1 .. Size => UnitAt(i) = Kernel(file, i - 1)
           /\ File[file].gz => /\ i = 1 => UnitAt(i) = Unit("magic", file, 0)
                               /\ i = 2 => UnitAt(i) = Unit("header", file, 0)
                               /\ i \in 3 .. Codes + 2 => UnitAt(i) = Unit("data", file, i - 3)
                               /\ i = Codes + 3 => UnitAt(i) = Unit("crc", file, 0)
  <1> DEFINE u == Units(file)
  <1>1. /\ u \in Seq(UnitType) /\ Len(u) = Length /\ Length \in Nat \ {0}
        /\ ~File[file].gz => \A j \in 1 .. Size : u[j] = Kernel(file, j - 1)
        /\ File[file].gz =>
             /\ u[1] = Unit("magic", file, 0) /\ u[2] = Unit("header", file, 0)
             /\ \A j \in 1 .. Codes : u[j + 2] = Unit("data", file, j - 1)
             /\ u[Codes + 3] = Unit("crc", file, 0)
    BY UnitsAre
  <1>2. UnitAt(i) = IF i \in 1 .. Length THEN u[i] ELSE Junk
    BY <1>1 DEF UnitAt
  <1>3. /\ Size \in Nat /\ File[file].rest \in Nat /\ Codes \in Nat
        /\ File[file].gz => Length = Codes + 4 + File[file].rest
        /\ ~File[file].gz => Length = Size + File[file].rest
    BY Sizes DEF Length
  <1>4. Junk \in UnitType
    BY DEF Junk, Unit, UnitType
  <1> HIDE DEF u
  <1>5. UnitAt(i) \in UnitType
    BY <1>1, <1>2, <1>4
  <1>6. ASSUME ~File[file].gz, i \in 1 .. Size PROVE UnitAt(i) = Kernel(file, i - 1)
    <2>1. i \in 1 .. Length
      BY <1>3, <1>6
    <2> QED
      BY <1>1, <1>2, <1>6, <2>1
  <1>7. ASSUME File[file].gz
        PROVE  /\ i = 1 => UnitAt(i) = Unit("magic", file, 0)
               /\ i = 2 => UnitAt(i) = Unit("header", file, 0)
               /\ i \in 3 .. Codes + 2 => UnitAt(i) = Unit("data", file, i - 3)
               /\ i = Codes + 3 => UnitAt(i) = Unit("crc", file, 0)
    <2>1. i \in 1 .. Codes + 3 => UnitAt(i) = u[i]
      BY <1>2, <1>3, <1>7
    <2>2. ASSUME i \in 3 .. Codes + 2 PROVE u[i] = Unit("data", file, i - 3)
      <3>1. i - 2 \in 1 .. Codes /\ (i - 2) + 2 = i /\ (i - 2) - 1 = i - 3
        BY <1>3, <2>2
      <3>2. u[(i - 2) + 2] = Unit("data", file, (i - 2) - 1)
        BY <1>1, <1>7, <3>1
      <3> QED
        BY <3>1, <3>2
    <2> QED
      BY <1>1, <1>3, <1>7, <2>1, <2>2
  <1> QED
    BY <1>5, <1>6, <1>7

(* What a back end reads.                                                  *)
From(u, pos) == \A i \in 1 .. Len(u) : u[i] = UnitAt(pos + i)
LEMMA BootReadIs ==
    ASSUME place \in Places, NEW pos \in Int, NEW len \in Nat, NEW u, u = boot_read(pos, len)
    PROVE  /\ u \in Seq(UnitType) /\ Len(u) \in 0 .. len
           /\ From(u, pos)
           /\ place[1] = "net" => Len(u) = len
           /\ place[1] # "net" => /\ pos >= Length => Len(u) = 0
                                  /\ pos + len <= Length => Len(u) = len
                                  /\ pos <= Length /\ pos + len > Length => Len(u) = Length - pos
  <1> DEFINE left == IF pos >= Length THEN 0 ELSE Length - pos
             lesser == IF len <= left THEN len ELSE left
             count == IF place[1] = "net" THEN len ELSE lesser
  <1>1. Len(Units(file)) = Length /\ Length \in Nat
    BY UnitsAre
  <1>2. left \in Nat /\ Min({len, left}) = lesser
    BY <1>1, LesserOf
  <1>3. u = [i \in 1 .. count |-> UnitAt(pos + i)]
    BY <1>1, <1>2 DEF boot_read, bootp_read, macos_read
  <1>4. count \in 0 .. len
    BY <1>2
  <1>5. \A i \in 1 .. count : UnitAt(pos + i) \in UnitType
    BY <1>4, UnitAtIs
  <1>6. place[1] # "net" => /\ pos >= Length => count = 0
                            /\ pos + len <= Length => count = len
                            /\ pos <= Length /\ pos + len > Length => count = Length - pos
    BY <1>1
  <1>7. place[1] = "net" => count = len
    OBVIOUS
  <1> HIDE DEF count
  <1>8. u \in Seq(UnitType) /\ Len(u) = count
    BY <1>3, <1>4, <1>5
  <1>9. From(u, pos)
    BY <1>3, <1>8 DEF From
  <1> QED
    BY <1>4, <1>6, <1>7, <1>8, <1>9
-----------------------------------------------------------------------------
(* What the operators of gzip.c do with a slot.                            *)

(* A step of the input.                                                    *)
Alike(s, t) ==
    /\ t \in Slot
    /\ t.fd = s.fd /\ t.boot = s.boot /\ t.gz = s.gz /\ t.inbuf = s.inbuf /\ t.live = s.live
    /\ t.ended = s.ended /\ t.consumed = s.consumed /\ t.total_out = s.total_out
    /\ t.z_err = s.z_err /\ t.transparent = s.transparent

(* The units read ahead are those of the file before the back end's.       *)
AheadRight(s) ==
    /\ s.pos \in Nat /\ Len(s.ahead) <= s.pos
    /\ \A i \in 1 .. Len(s.ahead) : s.ahead[i] = UnitAt(s.pos - Len(s.ahead) + i)
Next1(s) == s.pos - Len(s.ahead) + 1        \* the unit that comes next
(* The buffer can be filled.                                               *)
Whole(s) == s.ahead = <<>> => place[1] = "net" \/ s.pos + Z_BUFSIZE <= Length

LEMMA FieldTypes ==
    ASSUME NEW s \in Slot
    PROVE  /\ s.consumed \in Nat /\ s.total_out \in Nat /\ s.ahead \in Seq(UnitType)
           /\ s.next_null \in BOOLEAN /\ s.live \in BOOLEAN /\ s.fd \in Int /\ s.z_err \in Errors
           /\ s.z_eof \in BOOLEAN /\ s.inbuf \in BOOLEAN /\ s.transparent \in BOOLEAN
           /\ s.pos \in Int /\ s.boot \in Nat /\ s.gz \in BOOLEAN /\ s.ended \in BOOLEAN
           /\ Len(s.ahead) \in Nat
  BY DEF Slot

LEMMA TailIs ==
    ASSUME NEW q \in Seq(UnitType), q # <<>>
    PROVE  /\ Tail(q) \in Seq(UnitType) /\ Len(Tail(q)) = Len(q) - 1 /\ Len(q) \in Nat \ {0}
           /\ Head(q) = q[1] /\ Head(q) \in UnitType
           /\ \A i \in 1 .. Len(q) - 1 : Tail(q)[i] = q[i + 1]
  BY HeadTailProperties

LEMMA JunkSeq ==
    ASSUME NEW q \in Seq(UnitType)
    PROVE  JunkOf(q) \in Seq(UnitType) /\ Len(JunkOf(q)) = Len(q)
  <1>1. Junk \in UnitType
    BY DEF Junk, Unit, UnitType
  <1>2. DOMAIN q = 1 .. Len(q) /\ Len(q) \in Nat
    OBVIOUS
  <1> QED
    BY <1>1, <1>2 DEF JunkOf

LEMMA AheadSet ==
    ASSUME NEW s \in Slot, NEW a \in Seq(UnitType), NEW t, t = [s EXCEPT !.ahead = a]
    PROVE  /\ Alike(s, t) /\ t.ahead = a /\ t.pos = s.pos /\ t.z_eof = s.z_eof
           /\ t.next_null = s.next_null
  BY DEF Slot, Alike

LEMMA FilledIs ==
    ASSUME NEW s \in Slot, NEW u \in Seq(UnitType), NEW t, t = Filled(s, u)
    PROVE  /\ Alike(s, t) /\ t.ahead = s.ahead /\ t.pos = s.pos + Len(u)
           /\ t.z_eof = (Len(u) # Z_BUFSIZE) /\ t.next_null = s.next_null
  <1> DEFINE p == s.pos + Len(u)
             e == Len(u) # Z_BUFSIZE
  <1>1. t = [s EXCEPT !.pos = p, !.z_eof = e]
    BY DEF Filled
  <1>2. p \in Int /\ e \in BOOLEAN
    BY FieldTypes
  <1>3. p = s.pos + Len(u) /\ e = (Len(u) # Z_BUFSIZE)
    OBVIOUS
  <1> HIDE DEF p, e
  <1>4. Alike(s, t) /\ t.ahead = s.ahead /\ t.pos = p /\ t.z_eof = e /\ t.next_null = s.next_null
    BY <1>1, <1>2 DEF Slot, Alike
  <1> QED
    BY <1>3, <1>4

LEMMA FirstByteIs ==
    ASSUME NEW s \in Slot, NEW u \in Seq(UnitType), NEW b, b = FirstByte(s, u),
           s.z_eof \/ u # <<>>
    PROVE  /\ Alike(s, b.slot) /\ b.slot.pos = s.pos /\ b.slot.z_eof = s.z_eof
           /\ b.c \in UnitType
           /\ ~s.z_eof => /\ b.c = u[1] /\ b.slot.ahead = Tail(u) /\ ~b.slot.next_null
  <1>1. CASE s.z_eof
    <2>1. JunkOf(u) \in Seq(UnitType)
      BY JunkSeq
    <2>2. b.slot = [s EXCEPT !.ahead = JunkOf(u)] /\ b.c = EOF
      BY <1>1 DEF FirstByte
    <2>3. EOF \in UnitType
      BY DEF EOF, Unit, UnitType
    <2>4. Alike(s, b.slot) /\ b.slot.pos = s.pos /\ b.slot.z_eof = s.z_eof
      BY <2>1, <2>2, AheadSet
    <2> QED
      BY <1>1, <2>2, <2>3, <2>4
  <1>2. CASE ~s.z_eof
    <2>1. u # <<>>
      BY <1>2
    <2>2. Tail(u) \in Seq(UnitType) /\ Head(u) = u[1] /\ Head(u) \in UnitType
      BY <2>1, TailIs
    <2> DEFINE a == Tail(u)
               t == [s EXCEPT !.ahead = a, !.next_null = FALSE]
    <2>3. b.slot = t /\ b.c = Head(u)
      BY <1>2 DEF FirstByte
    <2>4. a \in Seq(UnitType) /\ a = Tail(u)
      BY <2>2
    <2> HIDE DEF a
    <2>5. Alike(s, t) /\ t.pos = s.pos /\ t.z_eof = s.z_eof /\ t.ahead = a /\ t.next_null = FALSE
      BY <2>4 DEF Slot, Alike
    <2> QED
      BY <1>2, <2>2, <2>3, <2>4, <2>5
  <1>3. s.z_eof \in BOOLEAN
    BY FieldTypes
  <1> QED
    BY <1>1, <1>2, <1>3

LEMMA GetByteIs ==
    ASSUME place \in Places, NEW s \in Slot, NEW b, b = get_byte(s)
    PROVE  /\ Alike(s, b.slot) /\ b.c \in UnitType
           /\ AheadRight(s) /\ ~s.z_eof /\ Whole(s)
                => /\ AheadRight(b.slot) /\ ~b.slot.z_eof /\ Next1(b.slot) = Next1(s) + 1
                   /\ b.c = UnitAt(Next1(s))
                   /\ (s.ahead = <<>> \/ ~s.next_null) => ~b.slot.next_null
                   /\ s.ahead = <<>> => b.slot.pos = s.pos + Z_BUFSIZE
  <1>0. /\ s.ahead \in Seq(UnitType) /\ s.pos \in Int /\ s.z_eof \in BOOLEAN
        /\ Len(s.ahead) \in Nat /\ Z_BUFSIZE \in Nat \ {0}
    BY FieldTypes, Sizes
  <1>1. CASE s.z_eof
    <2>1. b.slot = s /\ b.c = EOF
      BY <1>1 DEF get_byte
    <2> QED
      BY <1>1, <2>1 DEF Alike, EOF, Unit, UnitType
  <1>2. CASE ~s.z_eof /\ s.ahead # <<>>
    <2> DEFINE a == Tail(s.ahead)
    <2>1. b.slot = [s EXCEPT !.ahead = a] /\ b.c = Head(s.ahead)
      BY <1>2 DEF get_byte
    <2>2. /\ a \in Seq(UnitType) /\ Len(a) = Len(s.ahead) - 1 /\ Len(s.ahead) \in Nat \ {0}
          /\ b.c = s.ahead[1] /\ b.c \in UnitType
          /\ \A i \in 1 .. Len(s.ahead) - 1 : a[i] = s.ahead[i + 1]
      BY <1>0, <1>2, <2>1, TailIs
    <2> HIDE DEF a
    <2>3. /\ Alike(s, b.slot) /\ b.slot.ahead = a /\ b.slot.pos = s.pos
          /\ b.slot.z_eof = s.z_eof /\ b.slot.next_null = s.next_null
      BY <2>1, <2>2, AheadSet
    <2>4. ASSUME AheadRight(s)
          PROVE  /\ AheadRight(b.slot) /\ Next1(b.slot) = Next1(s) + 1 /\ b.c = UnitAt(Next1(s))
      <3>1. /\ s.pos \in Nat /\ Len(s.ahead) <= s.pos
            /\ \A i \in 1 .. Len(s.ahead) : s.ahead[i] = UnitAt(s.pos - Len(s.ahead) + i)
        BY <2>4 DEF AheadRight
      <3>2. b.c = UnitAt(s.pos - Len(s.ahead) + 1)
        BY <2>2, <3>1
      <3>3. ASSUME NEW i \in 1 .. Len(a) PROVE a[i] = UnitAt(s.pos - Len(a) + i)
        <4>1. i + 1 \in 1 .. Len(s.ahead) /\ i \in 1 .. Len(s.ahead) - 1
          BY <2>2
        <4>2. s.pos - Len(s.ahead) + (i + 1) = s.pos - Len(a) + i
          <5>1. Len(a) = Len(s.ahead) - 1 /\ Len(s.ahead) \in Int /\ s.pos \in Int /\ i \in Int
            BY <1>0, <2>2
          <5> QED
            BY <5>1
        <4>3. s.ahead[i + 1] = UnitAt(s.pos - Len(s.ahead) + (i + 1))
          BY <3>1, <4>1
        <4> QED
          BY <2>2, <4>1, <4>2, <4>3
      <3>4. Len(a) <= s.pos
        BY <2>2, <3>1
      <3>5. AheadRight(b.slot)
        BY <2>3, <3>1, <3>3, <3>4 DEF AheadRight
      <3>6. Next1(b.slot) = Next1(s) + 1
        BY <2>2, <2>3, <3>1 DEF Next1
      <3> QED
        BY <3>2, <3>5, <3>6 DEF Next1
    <2> QED
      BY <1>2, <2>2, <2>3, <2>4
  <1>3. CASE ~s.z_eof /\ s.ahead = <<>>
    <2> DEFINE u == boot_read(s.pos, Z_BUFSIZE)
               t == Filled(s, u)
    <2>1. b = FirstByte(t, u)
      BY <1>3 DEF get_byte, FillAndGet
    <2>2. /\ u \in Seq(UnitType) /\ Len(u) \in 0 .. Z_BUFSIZE
          /\ From(u, s.pos)
          /\ Whole(s) => Len(u) = Z_BUFSIZE
      <3>1. u = boot_read(s.pos, Z_BUFSIZE)
        OBVIOUS
      <3> HIDE DEF u
      <3>z. s.pos \in Int /\ Z_BUFSIZE \in Nat
        BY <1>0
      <3>2. /\ u \in Seq(UnitType) /\ Len(u) \in 0 .. Z_BUFSIZE
            /\ From(u, s.pos)
            /\ place[1] = "net" => Len(u) = Z_BUFSIZE
            /\ place[1] # "net" /\ s.pos + Z_BUFSIZE <= Length => Len(u) = Z_BUFSIZE
        BY <3>1, <3>z, BootReadIs
      <3>3. Length \in Nat
        BY UnitsAre
      <3> QED
        BY <1>0, <1>3, <3>2, <3>3 DEF Whole
    <2>t. t = Filled(s, u)
      OBVIOUS
    <2> HIDE DEF u, t
    <2>3. /\ Alike(s, t) /\ t.pos = s.pos + Len(u) /\ t.z_eof = (Len(u) # Z_BUFSIZE)
      BY <2>2, <2>t, FilledIs
    <2>4. t \in Slot /\ (t.z_eof \/ u # <<>>)
      <3>1. u = <<>> => Len(u) = 0
        OBVIOUS
      <3> QED
        BY <1>0, <2>2, <2>3, <3>1 DEF Alike
    <2>5. /\ Alike(t, b.slot) /\ b.slot.pos = t.pos /\ b.slot.z_eof = t.z_eof
          /\ b.c \in UnitType
          /\ ~t.z_eof => b.c = u[1] /\ b.slot.ahead = Tail(u) /\ ~b.slot.next_null
      BY <2>1, <2>2, <2>4, FirstByteIs
    <2>6. Alike(s, b.slot)
      BY <2>3, <2>5 DEF Alike
    <2>7. ASSUME AheadRight(s), Whole(s)
          PROVE  /\ AheadRight(b.slot) /\ ~b.slot.z_eof /\ Next1(b.slot) = Next1(s) + 1
                 /\ b.c = UnitAt(Next1(s)) /\ ~b.slot.next_null
                 /\ b.slot.pos = s.pos + Z_BUFSIZE
      <3>1. Len(u) = Z_BUFSIZE /\ ~t.z_eof /\ u # <<>> /\ s.pos \in Nat
        BY <1>0, <2>2, <2>3, <2>4, <2>7 DEF AheadRight
      <3> DEFINE a == Tail(u)
                 p == t.pos
      <3>2. /\ Len(a) = Len(u) - 1 /\ Len(u) \in Nat \ {0} /\ p = s.pos + Len(u)
            /\ \A i \in 1 .. Len(u) - 1 : a[i] = u[i + 1]
        BY <2>2, <2>3, <3>1, TailIs
      <3>3. b.slot.ahead = a /\ b.slot.pos = p /\ b.c = u[1] /\ ~b.slot.next_null /\ ~b.slot.z_eof
        BY <2>5, <3>1
      <3> HIDE DEF a, p
      <3>4. ASSUME NEW i \in 1 .. Len(a) PROVE a[i] = UnitAt(p - Len(a) + i)
        <4>0. /\ Len(a) = Len(u) - 1 /\ Len(u) \in Int /\ p = s.pos + Len(u)
              /\ s.pos \in Int /\ i \in Int /\ i \in 1 .. Len(a)
          BY <3>1, <3>2
        <4>1. i + 1 \in 1 .. Len(u) /\ i \in 1 .. Len(u) - 1 /\ s.pos + (i + 1) = p - Len(a) + i
          BY <4>0
        <4>2. u[i + 1] = UnitAt(s.pos + (i + 1))
          BY <2>2, <4>1 DEF From
        <4> QED
          BY <3>2, <4>1, <4>2
      <3>5. AheadRight(b.slot)
        BY <3>1, <3>2, <3>3, <3>4 DEF AheadRight
      <3>6. Len(s.ahead) = 0
        BY <1>3
      <3>7. Next1(b.slot) = Next1(s) + 1 /\ Next1(s) = s.pos + 1
        BY <3>1, <3>2, <3>3, <3>6 DEF Next1
      <3>8. b.c = UnitAt(s.pos + 1)
        BY <2>2, <3>2, <3>3 DEF From
      <3> QED
        BY <3>1, <3>2, <3>3, <3>5, <3>7, <3>8
    <2> QED
      BY <2>5, <2>6, <2>7
  <1> QED
    BY <1>0, <1>1, <1>2, <1>3

(* A header changes neither stream nor owner.                              *)
Kin(s, t) ==
    /\ t \in Slot /\ t.fd = s.fd /\ t.boot = s.boot /\ t.gz = s.gz /\ t.inbuf = s.inbuf
    /\ t.live = s.live /\ t.ended = s.ended /\ t.consumed = s.consumed
    /\ t.total_out = s.total_out

LEMMA NotCompressedIs ==
    ASSUME NEW s \in Slot, NEW a \in Seq(UnitType), NEW t, t = NotCompressed(s, a)
    PROVE  /\ Kin(s, t) /\ t.transparent /\ (a # <<>> => t.z_err = "Z_OK")
  <1> DEFINE e == IF a # <<>> THEN "Z_OK" ELSE "Z_STREAM_END"
  <1>1. t = [s EXCEPT !.transparent = TRUE, !.ahead = a, !.z_err = e]
    BY DEF NotCompressed
  <1>2. e \in Errors /\ (a # <<>> => e = "Z_OK")
    BY DEF Errors
  <1> HIDE DEF e
  <1>3. t \in Slot
    BY <1>1, <1>2 DEF Slot
  <1>4. t.transparent = TRUE /\ t.z_err = e
    BY <1>1 DEF Slot
  <1>5. /\ t.fd = s.fd /\ t.boot = s.boot /\ t.gz = s.gz /\ t.inbuf = s.inbuf
        /\ t.live = s.live /\ t.ended = s.ended /\ t.consumed = s.consumed
        /\ t.total_out = s.total_out
    BY <1>1 DEF Slot
  <1> QED
    BY <1>2, <1>3, <1>4, <1>5 DEF Kin

LEMMA RestOfHeaderIs ==
    ASSUME NEW h, h.slot \in Slot, NEW t, t = RestOfHeader(h)
    PROVE  /\ Kin(h.slot, t) /\ ~t.transparent /\ t.ahead = h.slot.ahead /\ t.pos = h.slot.pos
           /\ t.z_eof = h.slot.z_eof /\ t.next_null = h.slot.next_null
           /\ ~h.slot.z_eof /\ h.c.kind = "header" => t.z_err = "Z_OK"
  <1> DEFINE s == h.slot
             e == IF s.z_eof \/ h.c.kind # "header" THEN "Z_DATA_ERROR" ELSE "Z_OK"
  <1>1. t = [s EXCEPT !.transparent = FALSE, !.z_err = e]
    BY DEF RestOfHeader
  <1>2. e \in Errors /\ (~s.z_eof /\ h.c.kind = "header" => e = "Z_OK")
    BY DEF Errors
  <1>3. s \in Slot
    OBVIOUS
  <1> HIDE DEF e, s
  <1>4. t \in Slot
    BY <1>1, <1>2, <1>3 DEF Slot
  <1>5. /\ t.transparent = FALSE /\ t.z_err = e /\ t.ahead = s.ahead /\ t.pos = s.pos
        /\ t.z_eof = s.z_eof /\ t.next_null = s.next_null
    BY <1>1, <1>3 DEF Slot
  <1>6. /\ t.fd = s.fd /\ t.boot = s.boot /\ t.gz = s.gz /\ t.inbuf = s.inbuf
        /\ t.live = s.live /\ t.ended = s.ended /\ t.consumed = s.consumed
        /\ t.total_out = s.total_out
    BY <1>1, <1>3 DEF Slot
  <1> QED
    BY <1>2, <1>4, <1>5, <1>6 DEF Kin, s

LEMMA AlikeKin ==
    ASSUME NEW s, NEW t, Alike(s, t)
    PROVE  Kin(s, t)
  BY DEF Alike, Kin

LEMMA KinKin ==
    ASSUME NEW s, NEW t, NEW u, Kin(s, t), Kin(t, u)
    PROVE  Kin(s, u)
  BY DEF Kin

LEMMA HeaderIs ==
    ASSUME place \in Places, NEW s \in Slot, NEW t, t = check_header(s)
    PROVE  Kin(s, t)
  <1> DEFINE m == get_byte(s)
             h == get_byte(m.slot)
             a == (IF m.c = EOF THEN <<>> ELSE <<m.c>>) \o m.slot.ahead
  <1>1. t = IF m.c.kind = "magic" THEN RestOfHeader(h) ELSE NotCompressed(m.slot, a)
    BY DEF check_header, Magic
  <1>m. m = get_byte(s)
    OBVIOUS
  <1>h. h = get_byte(m.slot)
    OBVIOUS
  <1> HIDE DEF m, h
  <1>2. Alike(s, m.slot) /\ m.c \in UnitType
    BY <1>m, GetByteIs
  <1>3. m.slot \in Slot /\ Kin(s, m.slot)
    BY <1>2, AlikeKin DEF Alike
  <1>4. CASE m.c.kind = "magic"
    <2>1. Alike(m.slot, h.slot)
      BY <1>3, <1>h, GetByteIs
    <2>2. h.slot \in Slot /\ Kin(m.slot, h.slot)
      BY <2>1, AlikeKin DEF Alike
    <2>3. t = RestOfHeader(h)
      BY <1>1, <1>4
    <2>4. Kin(h.slot, t)
      BY <2>2, <2>3, RestOfHeaderIs
    <2> QED
      BY <1>3, <2>2, <2>4, KinKin
  <1>5. CASE m.c.kind # "magic"
    <2>1. a \in Seq(UnitType)
      BY <1>2, <1>3, FieldTypes
    <2>2. t = NotCompressed(m.slot, a)
      BY <1>1, <1>5
    <2> HIDE DEF a
    <2>3. Kin(m.slot, t)
      BY <1>3, <2>1, <2>2, NotCompressedIs
    <2> QED
      BY <1>3, <2>3, KinKin
  <1> QED
    BY <1>4, <1>5

(* At the beginning of a compressed file.                                  *)
LEMMA CompressedHeader ==
    ASSUME place \in Places, NEW s \in Slot, NEW t, t = check_header(s),
           s.pos = 0, s.ahead = <<>>, ~s.z_eof, File[file].gz
    PROVE  /\ ~t.transparent /\ t.z_err = "Z_OK" /\ AheadRight(t) /\ Next1(t) = 3
           /\ ~t.z_eof /\ ~t.next_null
  <1> DEFINE m == get_byte(s)
             h == get_byte(m.slot)
  <1>1. t = IF m.c.kind = "magic" THEN RestOfHeader(h)
            ELSE NotCompressed(m.slot, (IF m.c = EOF THEN <<>> ELSE <<m.c>>) \o m.slot.ahead)
    BY DEF check_header, Magic
  <1>m. m = get_byte(s)
    OBVIOUS
  <1>h. h = get_byte(m.slot)
    OBVIOUS
  <1> HIDE DEF m, h
  <1>0. /\ Z_BUFSIZE \in Nat \ {0} /\ Codes \in Nat \ {0} /\ File[file].rest \in Nat
        /\ Length = Codes + 4 + File[file].rest /\ (place[1] = "net" \/ Z_BUFSIZE <= Length)
    BY Sizes DEF Length
  <1>2. AheadRight(s) /\ Next1(s) = 1 /\ Whole(s)
    <2>1. Len(s.ahead) = 0
      OBVIOUS
    <2>2. place[1] = "net" \/ s.pos + Z_BUFSIZE <= Length
      BY <1>0
    <2> QED
      BY <2>1, <2>2 DEF AheadRight, Next1, Whole
  <1>3. /\ Alike(s, m.slot) /\ AheadRight(m.slot) /\ ~m.slot.z_eof /\ Next1(m.slot) = 2
        /\ m.c = UnitAt(1) /\ ~m.slot.next_null /\ m.slot.pos = Z_BUFSIZE
    <2>1. /\ Alike(s, m.slot) /\ AheadRight(m.slot) /\ ~m.slot.z_eof
          /\ Next1(m.slot) = Next1(s) + 1 /\ m.c = UnitAt(Next1(s)) /\ ~m.slot.next_null
          /\ m.slot.pos = s.pos + Z_BUFSIZE
      BY <1>2, <1>m, GetByteIs
    <2> QED
      BY <1>0, <1>2, <2>1
  <1>4. m.slot \in Slot /\ m.c.kind = "magic"
    <2>1. UnitAt(1) = Unit("magic", file, 0)
      BY UnitAtIs
    <2> QED
      BY <1>3, <2>1 DEF Unit, Alike
  <1>5. Whole(m.slot)
    <2>1. ASSUME m.slot.ahead = <<>> PROVE m.slot.pos + Z_BUFSIZE <= Length
      <3>1. Len(m.slot.ahead) = 0
        BY <2>1
      <3>2. m.slot.pos - 0 + 1 = 2
        BY <1>3, <3>1 DEF Next1
      <3> QED
        BY <1>0, <1>3, <3>2
    <2> QED
      BY <2>1 DEF Whole
  <1>6. /\ Alike(m.slot, h.slot) /\ AheadRight(h.slot) /\ ~h.slot.z_eof /\ Next1(h.slot) = 3
        /\ h.c = UnitAt(2) /\ ~h.slot.next_null
    <2>1. /\ Alike(m.slot, h.slot) /\ AheadRight(h.slot) /\ ~h.slot.z_eof
          /\ Next1(h.slot) = Next1(m.slot) + 1 /\ h.c = UnitAt(Next1(m.slot))
          /\ ~h.slot.next_null
      BY <1>3, <1>4, <1>5, <1>h, GetByteIs
    <2> QED
      BY <1>3, <2>1
  <1>7. h.slot \in Slot /\ h.c.kind = "header"
    <2>1. UnitAt(2) = Unit("header", file, 0)
      BY UnitAtIs
    <2> QED
      BY <1>6, <2>1 DEF Unit, Alike
  <1>8. t = RestOfHeader(h)
    BY <1>1, <1>4
  <1>9. /\ ~t.transparent /\ t.ahead = h.slot.ahead /\ t.pos = h.slot.pos /\ t.z_err = "Z_OK"
        /\ t.z_eof = h.slot.z_eof /\ t.next_null = h.slot.next_null
    BY <1>6, <1>7, <1>8, RestOfHeaderIs
  <1> QED
    BY <1>6, <1>9 DEF AheadRight, Next1

(* At the beginning of a plain one.                                        *)
LEMMA PlainHeader ==
    ASSUME place \in Places, NEW s \in Slot, NEW t, t = check_header(s),
           s.pos = 0, s.ahead = <<>>, ~s.z_eof, ~File[file].gz
    PROVE  t.transparent /\ t.z_err = "Z_OK"
  <1> DEFINE u == boot_read(0, Z_BUFSIZE)
             r == Filled(s, u)
             m == FirstByte(r, u)
             c == IF m.c = EOF THEN <<>> ELSE <<m.c>>
             a == c \o m.slot.ahead
  <1>1. m = get_byte(s)
    BY DEF get_byte, FillAndGet
  <1>2. t = IF m.c.kind = "magic" THEN RestOfHeader(get_byte(m.slot)) ELSE NotCompressed(m.slot, a)
    BY <1>1 DEF check_header, Magic
  <1>3. Z_BUFSIZE \in Nat \ {0} /\ Length \in Nat \ {0} /\ Size \in Nat \ {0}
    BY Sizes, UnitsAre
  <1>u. u = boot_read(0, Z_BUFSIZE)
    OBVIOUS
  <1>r. r = Filled(s, u)
    OBVIOUS
  <1>m. m = FirstByte(r, u)
    OBVIOUS
  <1> HIDE DEF u, r, m
  <1>4. u \in Seq(UnitType) /\ Len(u) \in 1 .. Z_BUFSIZE /\ From(u, 0)
    <2>1. /\ u \in Seq(UnitType) /\ Len(u) \in 0 .. Z_BUFSIZE /\ From(u, 0)
          /\ place[1] = "net" => Len(u) = Z_BUFSIZE
          /\ place[1] # "net" => /\ 0 >= Length => Len(u) = 0
                                 /\ 0 + Z_BUFSIZE <= Length => Len(u) = Z_BUFSIZE
                                 /\ 0 <= Length /\ 0 + Z_BUFSIZE > Length => Len(u) = Length - 0
      <3>1. 0 \in Int /\ Z_BUFSIZE \in Nat
        BY <1>3
      <3> QED
        BY <1>u, <3>1, BootReadIs
    <2> QED
      BY <1>3, <2>1
  <1>5. r \in Slot /\ r.z_eof = (Len(u) # Z_BUFSIZE)
    BY <1>4, <1>r, FilledIs DEF Alike
  <1>6. u[1] = Kernel(file, 0)
    <2>1. u[1] = UnitAt(0 + 1)
      BY <1>4 DEF From
    <2>2. UnitAt(1) = Kernel(file, 1 - 1)
      BY <1>3, UnitAtIs
    <2> QED
      BY <2>1, <2>2
  <1>7. m.slot \in Slot /\ m.c \in UnitType /\ m.slot.ahead \in Seq(UnitType)
    <2>1. u # <<>>
      BY <1>4
    <2>2. Alike(r, m.slot) /\ m.c \in UnitType
      BY <1>4, <1>5, <1>m, <2>1, FirstByteIs
    <2> QED
      BY <2>2, FieldTypes DEF Alike
  <1>8. m.c.kind # "magic" /\ a \in Seq(UnitType) /\ a # <<>>
    <2>1. CASE r.z_eof
      <3>1. m.c = EOF /\ m.slot = [r EXCEPT !.ahead = JunkOf(u)]
        BY <1>m, <2>1 DEF FirstByte
      <3>2. JunkOf(u) \in Seq(UnitType) /\ Len(JunkOf(u)) = Len(u)
        BY <1>4, JunkSeq
      <3>3. m.slot.ahead = JunkOf(u)
        BY <1>5, <3>1 DEF Slot
      <3>4. a = JunkOf(u)
        BY <3>1, <3>2, <3>3
      <3>5. m.c.kind = "eof"
        BY <3>1 DEF EOF, Unit
      <3> HIDE DEF a
      <3>6. a \in Seq(UnitType) /\ Len(a) # 0
        BY <1>4, <3>2, <3>4
      <3> QED
        BY <3>5, <3>6
    <2>2. CASE ~r.z_eof
      <3>1. u # <<>>
        BY <1>4
      <3>2. m.c = Kernel(file, 0)
        BY <1>4, <1>5, <1>6, <1>m, <2>2, <3>1, FirstByteIs
      <3>3. m.c.kind = "kernel" /\ EOF.kind = "eof"
        BY <3>2 DEF Kernel, EOF, Unit
      <3>4. c = <<m.c>> /\ c \in Seq(UnitType) /\ Len(c) = 1
        BY <1>7, <3>3
      <3> HIDE DEF c
      <3>5. a \in Seq(UnitType) /\ Len(a) = Len(c) + Len(m.slot.ahead)
        BY <1>7, <3>4, ConcatAt
      <3>6. Len(m.slot.ahead) \in Nat
        BY <1>7
      <3> QED
        BY <3>3, <3>4, <3>5, <3>6
    <2> QED
      BY <2>1, <2>2
  <1>9. t = NotCompressed(m.slot, a)
    BY <1>2, <1>8
  <1> HIDE DEF a, c
  <1> QED
    BY <1>7, <1>8, <1>9, NotCompressedIs

(* The end of a stream, checked or not.                                    *)
LEMMA ErrorSet ==
    ASSUME NEW s \in Slot, NEW t, t = [s EXCEPT !.z_err = "Z_DATA_ERROR"]
    PROVE  /\ Kin(s, t) /\ t.z_err = "Z_DATA_ERROR" /\ t.transparent = s.transparent
  <1>1. t \in Slot
    BY DEF Slot, Errors
  <1>2. t.z_err = "Z_DATA_ERROR" /\ t.transparent = s.transparent
    BY DEF Slot
  <1>3. /\ t.fd = s.fd /\ t.boot = s.boot /\ t.gz = s.gz /\ t.inbuf = s.inbuf
        /\ t.live = s.live /\ t.ended = s.ended /\ t.consumed = s.consumed
        /\ t.total_out = s.total_out
    BY DEF Slot
  <1> QED
    BY <1>1, <1>2, <1>3 DEF Kin

(* It is counted in full, or fails, or another begins.                     *)
Over(s, t) ==
    /\ t \in Slot /\ t.fd = s.fd /\ t.boot = s.boot /\ t.gz = s.gz /\ t.inbuf = s.inbuf
    /\ t.live = s.live /\ (s.ended => t.ended)
    /\ \/ t.consumed = s.consumed /\ t.total_out = s.total_out
       \/ t.consumed = 0 /\ t.total_out = 0
    /\ t.ended \/ (/\ t.z_err = "Z_DATA_ERROR" /\ t.transparent = s.transparent
                   /\ t.total_out = s.total_out)

LEMMA NextStreamIs ==
    ASSUME place \in Places, NEW s \in Slot, s.ended, NEW t, t = NextStream(check_header(s))
    PROVE  Over(s, t)
  <1> DEFINE h == check_header(s)
  <1>1. h = check_header(s)
    OBVIOUS
  <1>2. t = IF h.z_err = "Z_OK" THEN [h EXCEPT !.consumed = 0, !.total_out = 0] ELSE h
    BY DEF NextStream
  <1> HIDE DEF h
  <1>3. Kin(s, h)
    BY <1>1, HeaderIs
  <1>4. CASE t = h
    BY <1>3, <1>4 DEF Kin, Over
  <1>5. CASE t = [h EXCEPT !.consumed = 0, !.total_out = 0]
    <2>1. h \in Slot
      BY <1>3 DEF Kin
    <2> DEFINE g == [h EXCEPT !.consumed = 0]
    <2>g. g \in Slot
      BY <2>1 DEF Slot
    <2>e. t = [g EXCEPT !.total_out = 0]
      BY <1>5, <2>1 DEF Slot
    <2> HIDE DEF g
    <2>k. [g EXCEPT !.total_out = 0] \in Slot
      BY <2>g DEF Slot
    <2>2. t \in Slot
      BY <2>k, <2>e
    <2>3. /\ t.fd = h.fd /\ t.boot = h.boot /\ t.gz = h.gz /\ t.inbuf = h.inbuf
          /\ t.live = h.live /\ t.ended = h.ended /\ t.consumed = 0 /\ t.total_out = 0
      BY <1>5, <2>1 DEF Slot
    <2> QED
      BY <1>3, <2>2, <2>3 DEF Kin, Over
  <1> QED
    BY <1>2, <1>4, <1>5

LEMMA OverFrom ==
    ASSUME NEW s, NEW t, NEW u, Alike(s, t), Over(t, u)
    PROVE  Over(s, u)
  BY DEF Alike, Over

LEMMA ErrorOver ==
    ASSUME NEW s \in Slot, NEW t, t = [s EXCEPT !.z_err = "Z_DATA_ERROR"]
    PROVE  Over(s, t)
  <1>1. Kin(s, t) /\ t.z_err = "Z_DATA_ERROR" /\ t.transparent = s.transparent
    BY ErrorSet
  <1> QED
    BY <1>1 DEF Kin, Over

LEMMA StreamEndIs ==
    ASSUME place \in Places, NEW s \in Slot, NEW t, t = AtStreamEnd(s)
    PROVE  Over(s, t)
  <1> DEFINE crc == get_byte(s)
             size == get_byte(crc.slot)
             full == [size.slot EXCEPT !.ended = TRUE]
  <1>1. t = IF crc.c.kind = "crc"
            THEN IF size.c.kind = "size" THEN NextStream(check_header(full))
                 ELSE [size.slot EXCEPT !.z_err = "Z_DATA_ERROR"]
            ELSE [crc.slot EXCEPT !.z_err = "Z_DATA_ERROR"]
    BY DEF AtStreamEnd, CheckCrc, CheckSize
  <1>c. crc = get_byte(s)
    OBVIOUS
  <1>s. size = get_byte(crc.slot)
    OBVIOUS
  <1> HIDE DEF crc, size
  <1>2. crc.slot \in Slot /\ Alike(s, crc.slot)
    BY <1>c, GetByteIs DEF Alike
  <1>3. size.slot \in Slot /\ Alike(crc.slot, size.slot)
    BY <1>2, <1>s, GetByteIs DEF Alike
  <1>4. Alike(s, size.slot)
    BY <1>2, <1>3 DEF Alike
  <1>5. CASE t = [crc.slot EXCEPT !.z_err = "Z_DATA_ERROR"]
    <2>1. Over(crc.slot, t)
      BY <1>2, <1>5, ErrorOver
    <2> QED
      BY <1>2, <2>1, OverFrom
  <1>6. CASE t = [size.slot EXCEPT !.z_err = "Z_DATA_ERROR"]
    <2>1. Over(size.slot, t)
      BY <1>3, <1>6, ErrorOver
    <2> QED
      BY <1>4, <2>1, OverFrom
  <1>7. CASE t = NextStream(check_header(full))
    <2>f. full = [size.slot EXCEPT !.ended = TRUE]
      OBVIOUS
    <2> HIDE DEF full
    <2>1. full \in Slot
      BY <1>3, <2>f DEF Slot
    <2>2. /\ full.fd = size.slot.fd /\ full.boot = size.slot.boot /\ full.gz = size.slot.gz
          /\ full.inbuf = size.slot.inbuf /\ full.live = size.slot.live /\ full.ended = TRUE
          /\ full.consumed = size.slot.consumed /\ full.total_out = size.slot.total_out
      BY <1>3, <2>f DEF Slot
    <2>3. Over(full, t)
      BY <1>7, <2>1, <2>2, NextStreamIs
    <2>4. t.ended
      BY <2>2, <2>3 DEF Over
    <2>5. Over(size.slot, t)
      BY <2>2, <2>3, <2>4 DEF Over
    <2> QED
      BY <1>4, <2>5, OverFrom
  <1> QED
    BY <1>1, <1>5, <1>6, <1>7

(* A seek backwards begins again.                                          *)
LEMMA RestartedIs ==
    ASSUME place \in Places, NEW s \in Slot, NEW t, t = Restarted(s)
    PROVE  /\ t \in Slot /\ t.fd = s.fd /\ t.boot = s.boot /\ t.gz = s.gz /\ t.inbuf = s.inbuf
           /\ t.live = TRUE /\ t.ended = s.ended /\ t.consumed = 0 /\ t.total_out = 0
           /\ File[file].gz =>
                /\ ~t.transparent /\ t.z_err = "Z_OK" /\ AheadRight(t) /\ Next1(t) = 3
                /\ ~t.z_eof /\ ~t.next_null
  <1> DEFINE n == ~s.inbuf
             r == Rewound(s)
             q == [r EXCEPT !.z_eof = FALSE]
  <1>1. r = [s EXCEPT !.consumed = 0, !.total_out = 0, !.ahead = <<>>, !.next_null = n,
                      !.live = TRUE, !.z_err = "Z_OK", !.pos = 0]
    BY DEF Rewound
  <1>2. n \in BOOLEAN /\ "Z_OK" \in Errors /\ <<>> \in Seq(UnitType)
    BY DEF Errors
  <1> HIDE DEF r, n
  <1>3. r \in Slot
    <2> DEFINE f == [s EXCEPT !.consumed = 0]
               g == [f EXCEPT !.total_out = 0]
               h == [g EXCEPT !.ahead = <<>>]
               i == [h EXCEPT !.next_null = n, !.live = TRUE]
               j == [i EXCEPT !.z_err = "Z_OK"]
    <2>1. r = [j EXCEPT !.pos = 0]
      BY <1>1 DEF Slot
    <2>f. f \in Slot
      BY DEF Slot
    <2> HIDE DEF f
    <2>g. g \in Slot
      BY <2>f DEF Slot
    <2> HIDE DEF g
    <2>h. h \in Slot
      BY <1>2, <2>g DEF Slot
    <2> HIDE DEF h
    <2>i. i \in Slot
      BY <1>2, <2>h DEF Slot
    <2> HIDE DEF i
    <2>j. j \in Slot
      BY <1>2, <2>i DEF Slot
    <2> HIDE DEF j
    <2>k. [j EXCEPT !.pos = 0] \in Slot
      <3>1. ASSUME NEW z \in Int PROVE [j EXCEPT !.pos = z] \in Slot
        BY <2>j DEF Slot
      <3> QED
        BY <3>1
    <2> QED
      BY <2>1, <2>k
  <1>4. /\ r.consumed = 0 /\ r.total_out = 0 /\ r.ahead = <<>> /\ r.live = TRUE /\ r.pos = 0
    BY <1>1 DEF Slot
  <1>5. /\ r.fd = s.fd /\ r.boot = s.boot /\ r.gz = s.gz /\ r.inbuf = s.inbuf
        /\ r.ended = s.ended
    BY <1>1 DEF Slot
  <1>6. t = check_header(q)
    BY DEF Restarted, r
  <1>q. q = [r EXCEPT !.z_eof = FALSE]
    OBVIOUS
  <1> HIDE DEF q
  <1>7. q \in Slot
    BY <1>3, <1>q DEF Slot
  <1>8. /\ q.consumed = 0 /\ q.total_out = 0 /\ q.ahead = <<>> /\ q.live = TRUE /\ q.pos = 0
        /\ q.z_eof = FALSE
    BY <1>3, <1>4, <1>q DEF Slot
  <1>9. /\ q.fd = s.fd /\ q.boot = s.boot /\ q.gz = s.gz /\ q.inbuf = s.inbuf
        /\ q.ended = s.ended
    BY <1>3, <1>5, <1>q DEF Slot
  <1>10. Kin(q, t)
    BY <1>6, <1>7, HeaderIs
  <1>11. File[file].gz =>
                /\ ~t.transparent /\ t.z_err = "Z_OK" /\ AheadRight(t) /\ Next1(t) = 3
                /\ ~t.z_eof /\ ~t.next_null
    BY <1>6, <1>7, <1>8, CompressedHeader
  <1> QED
    BY <1>8, <1>9, <1>10, <1>11 DEF Kin
-----------------------------------------------------------------------------
(* A turn of gzboot_read's loop over a compressed kernel.                  *)

LEMMA GreatestOf ==
    ASSUME NEW N \in Nat, NEW S \in SUBSET (0 .. N), S # {}
    PROVE  \E x \in S : \A y \in S : y <= x
  <1> DEFINE down == {N - x : x \in S}
  <1>1. down \in SUBSET Nat /\ down # {}
    <2>1. \A x \in S : N - x \in Nat
      OBVIOUS
    <2>2. \A m \in down : m \in Nat
      BY <2>1
    <2>3. PICK x \in S : TRUE
      OBVIOUS
    <2>4. N - x \in down
      OBVIOUS
    <2> QED
      BY <2>2, <2>4
  <1>2. Min(down) \in down /\ \A m \in down : Min(down) <= m
    BY <1>1, LeastOf
  <1>3. PICK x \in S : Min(down) = N - x
    BY <1>2
  <1>4. ASSUME NEW y \in S
        PROVE  y <= x
    <2>1. N - y \in down
      OBVIOUS
    <2>2. N - x <= N - y
      BY <1>2, <1>3, <2>1
    <2> QED
      BY <2>2
  <1> QED
    BY <1>4

LEMMA Products ==
    ASSUME NEW a \in Nat, NEW b \in Nat, NEW r \in Nat, a <= b
    PROVE  a * r \in Nat /\ b * r \in Nat /\ a * r <= b * r
  OBVIOUS

LEMMA SubSeqIs ==
    ASSUME NEW q \in Seq(UnitType), NEW k \in 0 .. Len(q), NEW t, t = AllButFirst(q, k)
    PROVE  /\ t \in Seq(UnitType) /\ Len(t) = Len(q) - k
           /\ \A i \in 1 .. Len(q) - k : t[i] = q[k + i]
  <1>1. Len(q) \in Nat /\ \A i \in k + 1 .. Len(q) : q[i] \in UnitType
    OBVIOUS
  <1>2. t = SubSeq(q, k + 1, Len(q))
    BY DEF AllButFirst
  <1>3. t \in Seq(UnitType) /\ Len(t) = IF k + 1 <= Len(q) THEN Len(q) - (k + 1) + 1 ELSE 0
    BY <1>1, <1>2, SubSeqProperties
  <1>4. \A i \in 1 .. Len(q) - (k + 1) + 1 : t[i] = q[k + 1 + i - 1]
    BY <1>1, <1>2, SubSeqProperties
  <1>5. \A i \in 1 .. Len(q) - k : t[i] = q[k + i]
    <2> TAKE i \in 1 .. Len(q) - k
    <2>1. i \in 1 .. Len(q) - (k + 1) + 1 /\ k + 1 + i - 1 = k + i
      BY <1>1
    <2> QED
      BY <1>4, <2>1
  <1> QED
    BY <1>1, <1>3, <1>5

(* In the middle of the stream: what inflate has got is all before what is *)
(* read ahead, and the kernel has not been delivered in full.              *)
Coding(s) ==
    /\ ~s.transparent /\ ~s.next_null /\ s.live /\ s.inbuf /\ s.z_err = "Z_OK"
    /\ AheadRight(s) /\ s.consumed <= Codes /\ Next1(s) = s.consumed + 3
    /\ s.total_out < Size
    /\ s.z_eof => place[1] # "net" /\ s.pos = Length

LEMMA RefilledIs ==
    ASSUME place \in Places, NEW s \in Slot, NEW t, t = Refilled(s)
    PROVE  /\ Alike(s, t)
           /\ File[file].gz /\ Coding(s) => Coding(t) /\ t.ahead # <<>>
  <1>0. /\ s.ahead \in Seq(UnitType) /\ Len(s.ahead) \in Nat /\ s.pos \in Int
        /\ s.z_eof \in BOOLEAN /\ s.inbuf \in BOOLEAN /\ s.consumed \in Nat
        /\ Z_BUFSIZE \in Nat \ {0} /\ Codes \in Nat /\ Length \in Nat
        /\ File[file].gz => Length >= Codes + 4
    <2>1. File[file].gz => Length >= Codes + 4
      BY Sizes DEF Length
    <2> QED
      BY <2>1, FieldTypes, Sizes, UnitsAre
  <1>1. CASE s.ahead # <<>>
    <2>1. t = s
      BY <1>1 DEF Refilled
    <2> QED
      BY <1>1, <2>1 DEF Alike
  <1>2. CASE s.ahead = <<>> /\ s.z_eof
    <2>1. t = s
      BY <1>2 DEF Refilled
    <2>2. ~(File[file].gz /\ Coding(s))
      <3>1. ASSUME File[file].gz, Coding(s) PROVE FALSE
        <4>1. Len(s.ahead) = 0
          BY <1>2
        <4>2. s.pos = Length /\ s.pos - 0 + 1 = s.consumed + 3 /\ s.consumed <= Codes
          BY <1>2, <3>1, <4>1 DEF Coding, Next1
        <4> QED
          BY <1>0, <3>1, <4>2
      <3> QED
        BY <3>1
    <2> QED
      BY <2>1, <2>2 DEF Alike
  <1>3. CASE s.ahead = <<>> /\ ~s.z_eof
    <2> DEFINE u == boot_read(s.pos, Z_BUFSIZE)
               f == Filled(s, u)
               n == ~s.inbuf
    <2>1. t = [f EXCEPT !.ahead = u, !.next_null = n]
      BY <1>3 DEF Refilled, Supplied
    <2>u. u = boot_read(s.pos, Z_BUFSIZE)
      OBVIOUS
    <2>f. f = Filled(s, u) /\ n \in BOOLEAN
      BY <1>0
    <2>n. s.inbuf => n = FALSE
      OBVIOUS
    <2> HIDE DEF u, f, n
    <2>2. /\ u \in Seq(UnitType) /\ Len(u) \in 0 .. Z_BUFSIZE /\ From(u, s.pos)
          /\ place[1] = "net" => Len(u) = Z_BUFSIZE
          /\ place[1] # "net" => /\ s.pos >= Length => Len(u) = 0
                                 /\ s.pos + Z_BUFSIZE <= Length => Len(u) = Z_BUFSIZE
                                 /\ s.pos <= Length /\ s.pos + Z_BUFSIZE > Length
                                      => Len(u) = Length - s.pos
      <3>1. s.pos \in Int /\ Z_BUFSIZE \in Nat
        BY <1>0
      <3> QED
        BY <2>u, <3>1, BootReadIs
    <2>3. Alike(s, f) /\ f.pos = s.pos + Len(u) /\ f.z_eof = (Len(u) # Z_BUFSIZE)
      BY <2>2, <2>f, FilledIs
    <2>4. f \in Slot
      BY <2>3 DEF Alike
    <2>5. Alike(f, t) /\ t.ahead = u /\ t.pos = f.pos /\ t.z_eof = f.z_eof /\ t.next_null = n
      BY <2>1, <2>2, <2>4, <2>f DEF Slot, Alike
    <2>6. Alike(s, t)
      BY <2>3, <2>5 DEF Alike
    <2>7. ASSUME File[file].gz, Coding(s) PROVE Coding(t) /\ t.ahead # <<>>
      <3>1. Len(s.ahead) = 0
        BY <1>3
      <3>2. s.pos \in Nat /\ s.pos - 0 + 1 = s.consumed + 3 /\ s.consumed <= Codes
        BY <2>7, <3>1 DEF Coding, Next1, AheadRight
      <3>3. s.pos < Length /\ s.pos = s.consumed + 2
        BY <1>0, <2>7, <3>2
      <3>4. Len(u) # 0 /\ (Len(u) # Z_BUFSIZE => place[1] # "net" /\ Len(u) = Length - s.pos)
        BY <1>0, <2>2, <3>3
      <3>5. t.pos = s.pos + Len(u) /\ t.z_eof = (Len(u) # Z_BUFSIZE) /\ t.next_null = FALSE
        BY <2>3, <2>5, <2>7, <2>n DEF Coding
      <3>6. AheadRight(t)
        <4>1. t.pos \in Nat /\ Len(u) <= t.pos
          BY <2>2, <3>2, <3>5
        <4>2. ASSUME NEW i \in 1 .. Len(u) PROVE u[i] = UnitAt(t.pos - Len(u) + i)
          <5>1. Len(u) \in Int /\ s.pos \in Int /\ i \in Int /\ t.pos = s.pos + Len(u)
            BY <2>2, <3>2, <3>5
          <5>2. t.pos - Len(u) + i = s.pos + i
            BY <5>1
          <5>3. u[i] = UnitAt(s.pos + i)
            BY <2>2 DEF From
          <5> QED
            BY <5>2, <5>3
        <4> QED
          BY <2>5, <4>1, <4>2 DEF AheadRight
      <3>7. Next1(t) = s.consumed + 3
        <4>1. Next1(t) = t.pos - Len(u) + 1
          BY <2>5 DEF Next1
        <4> QED
          BY <4>1, <2>2, <3>2, <3>3, <3>5
      <3>8. ASSUME t.z_eof PROVE place[1] # "net" /\ t.pos = Length
        <4>1. Len(u) # Z_BUFSIZE
          BY <3>5, <3>8
        <4>2. place[1] # "net" /\ Len(u) = Length - s.pos
          BY <3>4, <4>1
        <4>3. t.pos = s.pos + Len(u) /\ s.pos \in Int /\ Length \in Int
          BY <1>0, <3>5
        <4> QED
          BY <4>2, <4>3
      <3>9. /\ ~t.transparent /\ t.live /\ t.inbuf /\ t.z_err = "Z_OK" /\ t.consumed = s.consumed
            /\ t.total_out < Size
        BY <2>6, <2>7 DEF Alike, Coding
      <3>10. t.ahead # <<>>
        BY <2>5, <3>4
      <3> QED
        BY <3>2, <3>5, <3>6, <3>7, <3>8, <3>9, <3>10 DEF Coding
    <2> QED
      BY <2>6, <2>7
  <1> QED
    BY <1>0, <1>1, <1>2, <1>3

(* What can be decoded of the units read ahead.                            *)
Decodable(s) == {k \in 0 .. Len(s.ahead) : \A i \in 1 .. k :
                    s.ahead[i] = Unit("data", file, s.consumed + i - 1)}
Decoded(s) == CHOOSE k \in Decodable(s) : \A j \in Decodable(s) : j <= k

LEMMA DecodedIs ==
    ASSUME place \in Places, NEW s \in Slot
    PROVE  /\ Decoded(s) \in 0 .. Len(s.ahead)
           /\ File[file].gz /\ Coding(s) =>
                Decoded(s) = IF Len(s.ahead) <= Codes - s.consumed THEN Len(s.ahead)
                             ELSE Codes - s.consumed
  <1>0. Len(s.ahead) \in Nat /\ s.consumed \in Nat /\ Codes \in Nat /\ s.pos \in Int
    BY FieldTypes, Sizes
  <1> DEFINE n == Len(s.ahead)
             D == Decodable(s)
             d == Decoded(s)
  <1>1. D \in SUBSET (0 .. n) /\ 0 \in D
    BY <1>0 DEF Decodable
  <1>2. d \in D /\ \A j \in D : j <= d
    <2>1. \E x \in D : \A y \in D : y <= x
      <3> HIDE DEF D, n
      <3>1. n \in Nat /\ D \in SUBSET (0 .. n) /\ D # {}
        BY <1>0, <1>1 DEF n
      <3> QED
        BY <3>1, GreatestOf
    <2> QED
      BY <2>1 DEF Decoded
  <1>3. d \in 0 .. n
    BY <1>1, <1>2
  <1>4. ASSUME File[file].gz, Coding(s)
        PROVE  d = IF n <= Codes - s.consumed THEN n ELSE Codes - s.consumed
    <2> DEFINE m == IF n <= Codes - s.consumed THEN n ELSE Codes - s.consumed
    <2>1. /\ s.consumed <= Codes /\ s.pos - n + 1 = s.consumed + 3
          /\ \A i \in 1 .. n : s.ahead[i] = UnitAt(s.pos - n + i)
      BY <1>4 DEF Coding, AheadRight, Next1
    <2>2. \A i \in 1 .. n : s.ahead[i] = UnitAt(s.consumed + 2 + i)
      <3> TAKE i \in 1 .. n
      <3>1. s.pos - n + i = s.consumed + 2 + i
        BY <1>0, <2>1
      <3> QED
        BY <2>1, <3>1
    <2>3. m \in D
      <3>1. m \in 0 .. n /\ m <= Codes - s.consumed
        BY <1>0, <2>1
      <3>2. ASSUME NEW i \in 1 .. m
            PROVE  s.ahead[i] = Unit("data", file, s.consumed + i - 1)
        <4> DEFINE q == s.consumed + 2 + i
        <4>1. i \in 1 .. n /\ q \in Int /\ q \in 3 .. Codes + 2 /\ q - 3 = s.consumed + i - 1
          BY <1>0, <3>1
        <4>2. s.ahead[i] = UnitAt(q)
          BY <2>2, <4>1
        <4> HIDE DEF q
        <4>3. UnitAt(q) = Unit("data", file, q - 3)
          BY <1>4, <4>1, UnitAtIs
        <4> QED
          BY <4>1, <4>2, <4>3
      <3> QED
        BY <3>1, <3>2 DEF Decodable
    <2>4. ASSUME NEW j \in D, j > m PROVE FALSE
      <3>1. j \in 0 .. n /\ \A i \in 1 .. j : s.ahead[i] = Unit("data", file, s.consumed + i - 1)
        BY DEF Decodable
      <3> DEFINE i == Codes - s.consumed + 1
      <3>2. i \in 1 .. j /\ i \in 1 .. n /\ s.consumed + 2 + i = Codes + 3
        <4>1. n \in Nat /\ j \in Nat /\ j <= n /\ s.consumed \in Nat /\ Codes \in Nat
          BY <1>0, <3>1
        <4>2. s.consumed <= Codes /\ j > m
          BY <2>1, <2>4
        <4> HIDE DEF n
        <4>3. n > Codes - s.consumed /\ m = Codes - s.consumed
          BY <4>1, <4>2
        <4> HIDE DEF m
        <4>4. Codes - s.consumed < j
          BY <4>1, <4>2, <4>3
        <4> QED
          BY <4>1, <4>2, <4>4
      <3>3. s.ahead[i] = UnitAt(Codes + 3)
        BY <2>2, <3>2
      <3>4. UnitAt(Codes + 3) = Unit("crc", file, 0)
        BY <1>0, <1>4, UnitAtIs
      <3>5. s.ahead[i] = Unit("data", file, s.consumed + i - 1)
        BY <3>1, <3>2
      <3> QED
        BY <3>3, <3>4, <3>5 DEF Unit
    <2>5. d <= m /\ m <= d /\ d \in Int /\ m \in Int
      BY <1>0, <1>1, <1>2, <2>3, <2>4
    <2> QED
      BY <2>5
  <1> QED
    BY <1>3, <1>4

(* inflate's changes to the slot.                                          *)
Shared(s, t) ==
    /\ t.fd = s.fd /\ t.boot = s.boot /\ t.gz = s.gz /\ t.inbuf = s.inbuf
    /\ t.live = s.live /\ t.ended = s.ended /\ t.transparent = s.transparent
    /\ t.pos = s.pos /\ t.z_eof = s.z_eof /\ t.next_null = s.next_null

LEMMA VerdictSet ==
    ASSUME NEW s \in Slot, NEW e \in Errors, NEW t, t = [s EXCEPT !.z_err = e]
    PROVE  /\ t \in Slot /\ t.consumed = s.consumed /\ t.total_out = s.total_out
           /\ t.ahead = s.ahead /\ t.z_err = e /\ Shared(s, t)
  <1>1. t \in Slot
    BY DEF Slot
  <1>2. t.total_out = s.total_out /\ t.consumed = s.consumed /\ t.ahead = s.ahead /\ t.z_err = e
    BY DEF Slot
  <1>3. Shared(s, t)
    BY DEF Slot, Shared
  <1> QED
    BY <1>1, <1>2, <1>3

Same(s, t) ==
    /\ t \in Slot /\ t.fd = s.fd /\ t.boot = s.boot /\ t.gz = s.gz /\ t.inbuf = s.inbuf
    /\ t.live = s.live /\ t.ended = s.ended /\ t.transparent = s.transparent
(* What a turn delivers.                                                   *)
Delivers(u, from) == \A i \in 1 .. Len(u) : u[i] = Kernel(file, from + i - 1)
Bounded(s) == s.total_out <= s.consumed * Ratio

LEMMA InflateIs ==
    ASSUME place \in Places, NEW s \in Slot, NEW space \in Nat, NEW r, r = inflate(s, space),
           Bounded(s)
    PROVE  /\ Same(s, r.slot) /\ Bounded(r.slot)
           /\ r.out \in Seq(UnitType) /\ Len(r.out) \in 0 .. space
           /\ File[file].gz /\ Coding(s) /\ s.ahead # <<>> /\ space > 0 =>
                /\ Delivers(r.out, s.total_out)
                /\ r.slot.total_out = s.total_out + Len(r.out)
                /\ \/ r.slot.z_err = "Z_STREAM_END" /\ r.slot.total_out = Size
                   \/ Coding(r.slot) /\ (Len(r.out) < space => ~r.slot.z_eof)
  <1>0. /\ s.consumed \in Nat /\ s.total_out \in Nat /\ s.ahead \in Seq(UnitType)
        /\ Len(s.ahead) \in Nat /\ s.next_null \in BOOLEAN /\ s.live \in BOOLEAN /\ s.pos \in Int
        /\ Ratio \in Nat \ {0} /\ Codes \in Nat /\ Size \in Nat \ {0} /\ file \in Files
        /\ s.z_eof \in BOOLEAN
    BY FieldTypes, Sizes
  <1>1. CASE s.next_null \/ ~s.live
    <2>1. r.slot = [s EXCEPT !.z_err = "Z_STREAM_ERROR"] /\ r.out = <<>>
      BY <1>1 DEF inflate
    <2>2. /\ Same(s, r.slot) /\ r.slot.total_out = s.total_out /\ r.slot.consumed = s.consumed
      BY <2>1 DEF Slot, Same, Errors
    <2>3. r.out \in Seq(UnitType) /\ Len(r.out) = 0
      BY <2>1
    <2>4. ~Coding(s)
      BY <1>1 DEF Coding
    <2> QED
      BY <1>0, <2>2, <2>3, <2>4 DEF Bounded
  <1>2. CASE ~s.next_null /\ s.live
    <2> DEFINE k == Decoded(s)
               n == Len(s.ahead)
               all == (s.consumed + k) * Ratio
               ready == all - s.total_out
               count == IF ready < space THEN ready ELSE space
               c == s.consumed + k
               o == s.total_out + count
               a == AllButFirst(s.ahead, k)
               q == [s EXCEPT !.consumed = c, !.total_out = o, !.ahead = a]
               e == IF q.total_out = Size THEN "Z_STREAM_END"
                    ELSE IF k < Len(s.ahead) /\ q.consumed < Codes THEN "Z_DATA_ERROR"
                    ELSE IF k = 0 /\ count = 0 THEN "Z_BUF_ERROR" ELSE "Z_OK"
    <2>1. /\ r.slot = [q EXCEPT !.z_err = e]
          /\ r.out = [i \in 1 .. count |-> Kernel(file, s.total_out + i - 1)]
      BY <1>2 DEF inflate, Decoded, Decodable, Codes, Size
    <2>2. /\ k \in 0 .. n
          /\ File[file].gz /\ Coding(s) =>
                k = IF n <= Codes - s.consumed THEN n ELSE Codes - s.consumed
      BY DecodedIs
    <2>a. a = AllButFirst(s.ahead, k)
      OBVIOUS
    <2>e. /\ e = IF q.total_out = Size THEN "Z_STREAM_END"
                 ELSE IF k < n /\ q.consumed < Codes THEN "Z_DATA_ERROR"
                 ELSE IF k = 0 /\ count = 0 THEN "Z_BUF_ERROR" ELSE "Z_OK"
          /\ e \in Errors
      BY DEF Errors
    <2> HIDE DEF k, e, a
    <2>3. all \in Nat /\ s.consumed * Ratio \in Nat /\ s.consumed * Ratio <= all
      <3>1. s.consumed \in Nat /\ s.consumed + k \in Nat /\ s.consumed <= s.consumed + k
        BY <1>0, <2>2
      <3> QED
        BY <1>0, <3>1, Products
    <2>4. ready \in Nat
      BY <1>0, <2>3 DEF Bounded
    <2>5. count \in 0 .. space /\ count <= ready /\ count \in Nat
      BY <2>4
    <2>6. c \in Nat /\ o \in Nat /\ o <= all /\ o = s.total_out + count /\ c = s.consumed + k
          /\ all = c * Ratio
      <3>1. count \in Nat /\ count <= ready /\ ready = all - s.total_out
        BY <2>5
      <3> HIDE DEF count, ready
      <3>2. all = c * Ratio
        OBVIOUS
      <3> HIDE DEF all
      <3>3. k \in Nat /\ s.consumed \in Nat /\ s.total_out \in Nat /\ all \in Nat
        BY <1>0, <2>2, <2>3
      <3> QED
        BY <3>1, <3>2, <3>3
    <2>7. /\ a \in Seq(UnitType) /\ Len(a) = n - k
          /\ \A i \in 1 .. n - k : a[i] = s.ahead[k + i]
      BY <1>0, <2>2, <2>a, SubSeqIs
    <2>q. q = [s EXCEPT !.consumed = c, !.total_out = o, !.ahead = a]
      OBVIOUS
    <2>o. count = IF ready < space THEN ready ELSE space
      OBVIOUS
    <2>r. ready = all - s.total_out
      OBVIOUS
    <2> HIDE DEF q, c, o, all, ready, count
    <2>8. /\ q.total_out = o /\ q.consumed = c
          /\ r.slot \in Slot /\ r.slot.consumed = c /\ r.slot.total_out = o /\ r.slot.ahead = a
          /\ r.slot.z_err = e
          /\ r.slot.fd = s.fd /\ r.slot.boot = s.boot /\ r.slot.gz = s.gz
          /\ r.slot.inbuf = s.inbuf /\ r.slot.live = s.live /\ r.slot.ended = s.ended
          /\ r.slot.transparent = s.transparent /\ r.slot.pos = s.pos
          /\ r.slot.z_eof = s.z_eof /\ r.slot.next_null = s.next_null
      <3>1. /\ q \in Slot /\ q.consumed = c /\ q.total_out = o /\ q.ahead = a /\ Shared(s, q)
        <4>1. /\ c \in Nat /\ o \in Nat /\ a \in Seq(UnitType)
              /\ q = [s EXCEPT !.consumed = c, !.total_out = o, !.ahead = a]
          BY <2>6, <2>7, <2>q
        <4>2. q \in Slot
          BY <4>1 DEF Slot
        <4>3. q.consumed = c /\ q.total_out = o /\ q.ahead = a
          BY <4>1 DEF Slot
        <4>4. Shared(s, q)
          BY <4>1 DEF Slot, Shared
        <4> QED
          BY <4>2, <4>3, <4>4
      <3>2. /\ r.slot \in Slot /\ r.slot.consumed = q.consumed
            /\ r.slot.total_out = q.total_out /\ r.slot.ahead = q.ahead /\ r.slot.z_err = e
            /\ Shared(q, r.slot)
        BY <2>1, <2>e, <3>1, VerdictSet
      <3> QED
        BY <3>1, <3>2 DEF Shared
    <2>9. Same(s, r.slot) /\ Bounded(r.slot)
      BY <2>6, <2>8 DEF Same, Bounded
    <2>10. r.out \in Seq(UnitType) /\ Len(r.out) = count /\ Delivers(r.out, s.total_out)
      <3>1. ASSUME NEW i \in 1 .. count PROVE Kernel(file, s.total_out + i - 1) \in UnitType
        <4>1. s.total_out + i - 1 \in Nat
          BY <1>0, <2>5
        <4> QED
          BY <1>0, <4>1 DEF Kernel, Unit, UnitType
      <3>2. r.out \in Seq(UnitType) /\ Len(r.out) = count
        BY <2>1, <2>5, <3>1
      <3> QED
        BY <2>1, <3>2 DEF Delivers
    <2>11. ASSUME File[file].gz, Coding(s), s.ahead # <<>>, space > 0
           PROVE  \/ e = "Z_STREAM_END" /\ o = Size
                  \/ Coding(r.slot) /\ (count < space => ~s.z_eof)
      <3>1. /\ Codes * Ratio = Size /\ Length \in Nat /\ Length >= Codes + 4 /\ n # 0 /\ n \in Nat
        <4>1. Length \in Nat
          BY UnitsAre
        <4> QED
          BY <1>0, <2>11, <4>1, Sizes DEF Length
      <3>2. /\ s.consumed <= Codes /\ s.pos - n + 1 = s.consumed + 3 /\ s.total_out < Size
            /\ s.z_eof => s.pos = Length
            /\ s.pos \in Nat /\ n <= s.pos
            /\ \A i \in 1 .. n : s.ahead[i] = UnitAt(s.pos - n + i)
        BY <2>11 DEF Coding, AheadRight, Next1
      <3>3. k = IF n <= Codes - s.consumed THEN n ELSE Codes - s.consumed
        BY <2>2, <2>11
      <3>4. c <= Codes /\ (k < n => c = Codes)
        <4>1. /\ n \in Int /\ s.consumed \in Int /\ Codes \in Int /\ s.consumed <= Codes
              /\ c = s.consumed + k
          BY <1>0, <2>6, <3>2
        <4> HIDE DEF n
        <4>2. CASE n <= Codes - s.consumed
          BY <3>3, <4>1, <4>2
        <4>3. CASE ~(n <= Codes - s.consumed)
          BY <3>3, <4>1, <4>3
        <4> QED
          BY <4>2, <4>3
      <3>5. all <= Size /\ (c = Codes => all = Size)
        BY <1>0, <2>6, <3>1, <3>4, Products
      <3>6. CASE o = Size
        BY <2>8, <2>e, <3>6
      <3>7. CASE o # Size
        <4>1. o < Size
          <5>1. o \in Int /\ all \in Int /\ Size \in Int /\ o <= all /\ all <= Size
            BY <1>0, <2>3, <2>6, <3>5
          <5> QED
            BY <3>7, <5>1
        <4>2. ~(k = 0 /\ count = 0)
          <5>1. ASSUME k = 0, count = 0 PROVE FALSE
            <6>1. c = Codes
              BY <3>1, <3>4, <5>1
            <6>2. ready > 0
              BY <1>0, <2>3, <2>r, <3>2, <3>5, <6>1
            <6> QED
              BY <2>4, <2>11, <2>o, <5>1, <6>2
          <5> QED
            BY <5>1
        <4>3. e = "Z_OK"
          <5>1. ~(k < n /\ c < Codes)
            BY <1>0, <2>6, <3>4
          <5> QED
            BY <2>8, <2>e, <3>7, <4>2, <5>1
        <4>4. AheadRight(r.slot)
          <5>1. Len(a) <= s.pos
            BY <2>2, <2>7, <3>1, <3>2
          <5>2. ASSUME NEW i \in 1 .. n - k PROVE a[i] = UnitAt(s.pos - (n - k) + i)
            <6>1. k + i \in 1 .. n /\ s.pos - n + (k + i) = s.pos - (n - k) + i
              BY <2>2, <3>1, <3>2
            <6> QED
              BY <2>7, <3>2, <6>1
          <5> QED
            BY <2>7, <2>8, <3>2, <5>1, <5>2 DEF AheadRight
        <4>5. Next1(r.slot) = c + 3
          <5>1. Next1(r.slot) = s.pos - (n - k) + 1
            BY <2>7, <2>8 DEF Next1
          <5>2. /\ n \in Int /\ k \in Int /\ s.pos \in Int /\ s.consumed \in Int
                /\ c = s.consumed + k /\ s.pos - n + 1 = s.consumed + 3
            BY <1>0, <2>2, <2>6, <3>2
          <5> HIDE DEF n
          <5>3. s.pos - (n - k) + 1 = c + 3
            BY <5>2
          <5> QED
            BY <5>1, <5>3
        <4>6. Coding(r.slot)
          BY <2>8, <2>11, <3>4, <4>1, <4>3, <4>4, <4>5 DEF Coding
        <4>7. ASSUME count < space, s.z_eof PROVE FALSE
          <5>1. o = all
            BY <1>0, <2>3, <2>4, <2>5, <2>6, <2>o, <2>r, <4>7
          <5>2. c # Codes
            BY <3>5, <3>7, <5>1
          <5>3. k = n /\ c < Codes
            BY <1>0, <2>2, <2>6, <3>1, <3>4, <5>2
          <5>4. s.pos = Length /\ c = s.consumed + n
            BY <2>6, <3>2, <4>7, <5>3
          <5>5. /\ s.pos \in Int /\ n \in Int /\ s.consumed \in Int /\ Codes \in Int
                /\ Length \in Int /\ s.pos - n + 1 = s.consumed + 3 /\ Length >= Codes + 4
            BY <1>0, <3>1, <3>2
          <5> HIDE DEF n
          <5> QED
            BY <5>3, <5>4, <5>5
        <4> QED
          BY <1>0, <4>6, <4>7
      <3> QED
        BY <3>6, <3>7
    <2> QED
      BY <2>5, <2>6, <2>8, <2>9, <2>10, <2>11
  <1> QED
    BY <1>0, <1>1, <1>2

(* A whole turn, with what follows the end of the stream.                  *)
Finished(s) ==
    ~s.transparent /\ s.live /\ s.inbuf /\ s.z_err = "Z_DATA_ERROR" /\ s.total_out = Size
After(r) == IF r.slot.z_err = "Z_STREAM_END" THEN AtStreamEnd(r.slot) ELSE r.slot

LEMMA TurnIs ==
    ASSUME place \in Places, NEW s \in Slot, NEW space \in Nat, Bounded(s),
           NEW r, r = inflate(Refilled(s), space), NEW t, t = After(r)
    PROVE  /\ t \in Slot /\ t.fd = s.fd /\ t.boot = s.boot /\ t.gz = s.gz /\ Bounded(t)
           /\ s.ended => t.ended
           /\ r.out \in Seq(UnitType) /\ Len(r.out) \in 0 .. space
           /\ File[file].gz /\ Coding(s) /\ space > 0 /\ ~t.ended =>
                /\ Delivers(r.out, s.total_out)
                /\ t.total_out = s.total_out + Len(r.out)
                /\ Finished(t) \/ (Coding(t) /\ (Len(r.out) < space => ~EndsRead(t)))
  <1> DEFINE f == Refilled(s)
             q == r.slot
  <1>f. f = Refilled(s)
    OBVIOUS
  <1>r. r = inflate(f, space)
    OBVIOUS
  <1> HIDE DEF f
  <1>1. Alike(s, f) /\ (File[file].gz /\ Coding(s) => Coding(f) /\ f.ahead # <<>>)
    BY <1>f, RefilledIs
  <1>2. f \in Slot /\ Bounded(f) /\ f.total_out = s.total_out
    BY <1>1 DEF Alike, Bounded
  <1>3. /\ Same(f, q) /\ Bounded(q) /\ r.out \in Seq(UnitType) /\ Len(r.out) \in 0 .. space
        /\ File[file].gz /\ Coding(f) /\ f.ahead # <<>> /\ space > 0 =>
                /\ Delivers(r.out, f.total_out)
                /\ q.total_out = f.total_out + Len(r.out)
                /\ \/ q.z_err = "Z_STREAM_END" /\ q.total_out = Size
                   \/ Coding(q) /\ (Len(r.out) < space => ~q.z_eof)
    BY <1>2, <1>r, InflateIs
  <1> HIDE DEF q
  <1>4. /\ q \in Slot /\ q.fd = s.fd /\ q.boot = s.boot /\ q.gz = s.gz /\ q.inbuf = s.inbuf
        /\ q.live = s.live /\ q.ended = s.ended /\ q.transparent = s.transparent
    BY <1>1, <1>3 DEF Alike, Same
  <1>5. CASE q.z_err = "Z_STREAM_END"
    <2>1. t = AtStreamEnd(q)
      BY <1>5 DEF After, q
    <2>2. Over(q, t)
      BY <1>4, <2>1, StreamEndIs
    <2>3. /\ t \in Slot /\ t.fd = s.fd /\ t.boot = s.boot /\ t.gz = s.gz /\ (s.ended => t.ended)
          /\ t.live = s.live /\ t.inbuf = s.inbuf
      BY <1>4, <2>2 DEF Over
    <2>4. Bounded(t)
      <3>1. CASE t.consumed = q.consumed /\ t.total_out = q.total_out
        BY <1>3, <3>1 DEF Bounded
      <3>2. CASE t.consumed = 0 /\ t.total_out = 0
        BY <3>2, Sizes DEF Bounded
      <3> QED
        BY <2>2, <3>1, <3>2 DEF Over
    <2>5. ASSUME File[file].gz, Coding(s), space > 0, ~t.ended
          PROVE  /\ Delivers(r.out, s.total_out)
                 /\ t.total_out = s.total_out + Len(r.out) /\ Finished(t)
      <3>1. /\ Delivers(r.out, s.total_out) /\ q.total_out = s.total_out + Len(r.out)
            /\ (q.total_out = Size \/ Coding(q))
        BY <1>1, <1>2, <1>3, <2>5
      <3>2. q.total_out = Size
        BY <1>5, <3>1 DEF Coding
      <3>3. t.z_err = "Z_DATA_ERROR" /\ t.transparent = q.transparent /\ t.total_out = q.total_out
        BY <2>2, <2>5 DEF Over
      <3>4. ~s.transparent /\ s.live /\ s.inbuf
        BY <2>5 DEF Coding
      <3> QED
        BY <1>4, <2>3, <3>1, <3>2, <3>3, <3>4 DEF Finished
    <2> QED
      BY <1>3, <2>3, <2>4, <2>5
  <1>6. CASE q.z_err # "Z_STREAM_END"
    <2>1. t = q
      BY <1>6 DEF After, q
    <2>2. ASSUME File[file].gz, Coding(s), space > 0
          PROVE  /\ Delivers(r.out, s.total_out) /\ t.total_out = s.total_out + Len(r.out)
                 /\ Coding(t) /\ (Len(r.out) < space => ~EndsRead(t))
      <3>1. /\ Delivers(r.out, s.total_out) /\ q.total_out = s.total_out + Len(r.out)
            /\ Coding(q) /\ (Len(r.out) < space => ~q.z_eof)
        BY <1>1, <1>2, <1>3, <1>6, <2>2
      <3> QED
        BY <2>1, <3>1 DEF Coding, EndsRead
    <2> QED
      BY <1>3, <1>4, <2>1, <2>2
  <1> QED
    BY <1>5, <1>6
-----------------------------------------------------------------------------
(* The slot of a descriptor.                                               *)

Look(files, d) == Min({i \in DOMAIN files : files[i].fd = d})
LEMMA LookIs ==
    ASSUME NEW files \in Seq(Slot), NEW a \in Int, NEW d, \E i \in DOMAIN files : files[i].fd = d,
           NEW t, t = [files[Look(files, d)] EXCEPT !.pos = a]
    PROVE  /\ Look(files, d) \in 1 .. Len(files) /\ Look(files, d) \in Nat
           /\ files[Look(files, d)] \in Slot /\ files[Look(files, d)].fd = d
           /\ t \in Slot /\ t.fd = d /\ t.pos = a
           /\ LET s == files[Look(files, d)]
              IN  /\ t.consumed = s.consumed /\ t.total_out = s.total_out
                  /\ t.boot = s.boot /\ t.gz = s.gz /\ t.ended = s.ended
                  /\ t.transparent = s.transparent /\ t.z_err = s.z_err
                  /\ t.ahead = s.ahead
  <1> DEFINE H == {i \in DOMAIN files : files[i].fd = d}
             i == Look(files, d)
             s == files[i]
  <1>1. H \in SUBSET Nat /\ H # {} /\ H \subseteq 1 .. Len(files)
    OBVIOUS
  <1>h. i = Min(H)
    BY DEF Look
  <1> HIDE DEF H, i
  <1>2. i \in H
    BY <1>1, <1>h, LeastOf
  <1>3. i \in 1 .. Len(files) /\ i \in Nat
    BY <1>1, <1>2
  <1>4. s \in Slot /\ s.fd = d
    BY <1>2, <1>3 DEF H
  <1>5. t = [s EXCEPT !.pos = a]
    BY DEF i
  <1> HIDE DEF s
  <1>6. t \in Slot
    BY <1>4, <1>5 DEF Slot
  <1>7. /\ t.fd = s.fd /\ t.pos = a
        /\ t.consumed = s.consumed /\ t.total_out = s.total_out
        /\ t.boot = s.boot /\ t.gz = s.gz /\ t.ended = s.ended
        /\ t.transparent = s.transparent /\ t.z_err = s.z_err
        /\ t.ahead = s.ahead
    BY <1>4, <1>5 DEF Slot
  <1> QED
    BY <1>3, <1>4, <1>6, <1>7 DEF i, s

LEMMA LookupIs ==
    ASSUME booter_files \in Seq(Slot), at \in Int, Found
    PROVE  /\ lookup_bf \in 1 .. Len(booter_files) /\ lookup_bf \in Nat
           /\ booter_files[lookup_bf] \in Slot /\ booter_files[lookup_bf].fd = fd
           /\ bf \in Slot /\ bf.fd = fd /\ bf.pos = at
           /\ LET s == booter_files[lookup_bf]
              IN  /\ bf.consumed = s.consumed /\ bf.total_out = s.total_out
                  /\ bf.boot = s.boot /\ bf.gz = s.gz /\ bf.ended = s.ended
                  /\ bf.transparent = s.transparent /\ bf.z_err = s.z_err
                  /\ bf.ahead = s.ahead
  <1> DEFINE k == Look(booter_files, fd)
             t == [booter_files[k] EXCEPT !.pos = at]
  <1>1. \E i \in DOMAIN booter_files : booter_files[i].fd = fd
    BY DEF Found, Having
  <1>2. lookup_bf = k /\ bf = t
    BY DEF lookup_bf, Having, bf, Look
  <1>t. t = [booter_files[Look(booter_files, fd)] EXCEPT !.pos = at]
    OBVIOUS
  <1> HIDE DEF t
  <1>3. /\ k \in 1 .. Len(booter_files) /\ k \in Nat
        /\ booter_files[k] \in Slot /\ booter_files[k].fd = fd
        /\ t \in Slot /\ t.fd = fd /\ t.pos = at
        /\ LET s == booter_files[k]
           IN  /\ t.consumed = s.consumed /\ t.total_out = s.total_out
               /\ t.boot = s.boot /\ t.gz = s.gz /\ t.ended = s.ended
               /\ t.transparent = s.transparent /\ t.z_err = s.z_err
               /\ t.ahead = s.ahead
    BY <1>1, <1>t, LookIs
  <1> HIDE DEF k
  <1> QED
    BY <1>2, <1>3

(* And after a step that gives it another.                                 *)
LEMMA NextLookupIs ==
    ASSUME booter_files' \in Seq(Slot), at' \in Int, Found'
    PROVE  /\ lookup_bf' \in 1 .. Len(booter_files')
           /\ bf' \in Slot /\ bf'.pos = at'
           /\ LET s == booter_files'[lookup_bf']
              IN  bf'.boot = s.boot /\ bf'.gz = s.gz
  <1> DEFINE k == Look(booter_files', fd')
             t == [booter_files'[k] EXCEPT !.pos = at']
  <1>1. \E i \in DOMAIN booter_files' : booter_files'[i].fd = fd'
    BY DEF Found, Having
  <1>2. lookup_bf' = k /\ bf' = t
    BY DEF lookup_bf, Having, bf, Look
  <1>t. t = [booter_files'[Look(booter_files', fd')] EXCEPT !.pos = at']
    OBVIOUS
  <1> HIDE DEF t
  <1>3. /\ k \in 1 .. Len(booter_files')
        /\ t \in Slot /\ t.pos = at'
        /\ LET s == booter_files'[k]
           IN  t.boot = s.boot /\ t.gz = s.gz
    BY <1>1, <1>t, LookIs
  <1> HIDE DEF k
  <1> QED
    BY <1>2, <1>3

(* What a call leaves in the slot is what the next one finds.              *)
LEMMA KeepIs ==
    ASSUME booter_files \in Seq(Slot), at \in Int, Found, NEW t, t \in Slot, t.fd = fd, Keep(t),
           fd' = fd
    PROVE  /\ booter_files' \in Seq(Slot) /\ Len(booter_files') = Len(booter_files)
           /\ at' \in Int /\ Found' /\ bf' = t
           /\ \A i \in DOMAIN booter_files' :
                 booter_files'[i] = IF i = lookup_bf THEN t ELSE booter_files[i]
  <1> DEFINE k == lookup_bf
  <1>1. /\ k \in 1 .. Len(booter_files) /\ booter_files[k].fd = fd
        /\ booter_files' = [booter_files EXCEPT ![k] = t] /\ at' = t.pos
    BY LookupIs DEF Keep
  <1>k. k = Min(Having(fd))
    BY DEF lookup_bf
  <1> HIDE DEF k
  <1>2. /\ booter_files' \in Seq(Slot) /\ Len(booter_files') = Len(booter_files)
        /\ DOMAIN booter_files' = DOMAIN booter_files
        /\ \A i \in DOMAIN booter_files' : booter_files'[i] = IF i = k THEN t ELSE booter_files[i]
    BY <1>1
  <1>3. Having(fd)' = Having(fd)
    BY <1>1, <1>2 DEF Having
  <1>4. Found' /\ lookup_bf' = k
    BY <1>3, <1>k DEF Found, lookup_bf
  <1>5. bf' = [t EXCEPT !.pos = t.pos]
    <2>1. bf' = [booter_files'[k] EXCEPT !.pos = at']
      BY <1>4 DEF bf
    <2> QED
      BY <1>1, <1>2, <2>1
  <1>6. [t EXCEPT !.pos = t.pos] = t
    BY DEF Slot
  <1>7. t.pos \in Int
    BY FieldTypes
  <1> QED
    BY <1>1, <1>2, <1>4, <1>5, <1>6, <1>7 DEF k

LEMMA Unmoved ==
    ASSUME UNCHANGED <<booter_files, fd, at>>
    PROVE  Found' = Found /\ bf' = bf
  BY DEF Found, Having, bf, lookup_bf

LEMMA ChunkIs ==
    ASSUME NEW n \in Nat, NEW c, c = Chunk(n)
    PROVE  c \in Nat /\ c <= n /\ c <= DUMMYBUFSIZE /\ (n > 0 => c > 0)
  <1>1. DUMMYBUFSIZE \in Nat \ {0}
    BY SizesAssumption
  <1>2. c = IF n <= DUMMYBUFSIZE THEN n ELSE DUMMYBUFSIZE
    BY <1>1, LesserOf DEF Chunk
  <1> QED
    BY <1>1, <1>2
-----------------------------------------------------------------------------
(* The inductive invariant.                                                *)

(* Every open holds one descriptor, so that one is left for the next.      *)
Opened == IsFiniteSet(inuse) /\ Cardinality(inuse) <= boots

(* Every slot: inflate delivers no more than it has taken, and the slot of *)
(* a plain kernel stays one.                                               *)
SlotRight(s) ==
    /\ Bounded(s) /\ s.boot <= boots /\ (pc = "header" => s.boot < boots)
    /\ s.boot > 0 /\ ~s.gz => s.transparent /\ s.z_err = "Z_OK"
    /\ s.boot = boots /\ pc # "idle" => s.gz = File[file].gz
Slots == \A i \in DOMAIN booter_files : SlotRight(booter_files[i])

Fresh(s) ==
    /\ s.consumed = 0 /\ s.total_out = 0 /\ s.ahead = <<>> /\ s.z_err = "Z_OK" /\ ~s.z_eof
    /\ s.inbuf /\ s.live /\ s.pos = 0 /\ ~s.ended
Starting ==
    /\ pc = "header" => /\ Len(booter_files) > 0 /\ Fresh(booter_files[Len(booter_files)])
                        /\ call = NoCall /\ offset = -1
    /\ pc # "idle" => boots > 0

(* What the last call answered.                                            *)
ReadAnswer ==
    call.op = "read" =>
        /\ (call.from + call.asked <= Size /\ call.asked > 0) => result = call.asked
        /\ result >= 0 => /\ Len(got) = result
                          /\ \A i \in DOMAIN got : call.from + i <= Size
                                => got[i] = Kernel(file, call.from + i - 1)
SeekAnswer == call.op = "seek" /\ call.asked <= Size => result = call.asked
Asked == call.op = "read" /\ call.from = offset /\ call.asked = room + Len(got)

(* A plain kernel is where the back end is, with nothing read ahead.       *)
Plain(s) == s.boot > 0 /\ ~s.gz
PlainAt(s) ==
    /\ pc # "skip"
    /\ offset # -1 => s.ahead = <<>> /\ s.pos = offset /\ offset >= 0
    /\ pc = "read" => got = <<>> /\ offset # -1 /\ Asked
    /\ pc = "open" /\ ~File[file].gz => ReadAnswer /\ SeekAnswer

(* A compressed one is where its stream is, in a read or a skip as well.   *)
Own(s) == s.boot = boots /\ s.gz /\ ~s.ended
OwnAt(s) ==
    /\ Coding(s) \/ Finished(s)
    /\ pc = "open" => offset \in {-1, s.total_out} /\ ReadAnswer /\ SeekAnswer
    /\ pc = "read" => /\ offset >= 0 /\ s.total_out = offset + Len(got)
                      /\ Delivers(got, offset) /\ Asked
    /\ pc = "skip" => /\ toskip > 0 /\ s.total_out + toskip = goal + Len(got)
                      /\ room + Len(got) = Chunk(toskip)
                      /\ call.op = "seek" /\ goal = call.asked
    /\ pc \in {"read", "skip"} => got = <<>> \/ room > 0

Working == pc \in {"open", "read", "skip"} /\ Found
Attached == Working => (Plain(bf) => PlainAt(bf)) /\ (Own(bf) => OwnAt(bf))

IInv == TypeOK /\ Opened /\ Slots /\ Starting /\ Attached
-----------------------------------------------------------------------------
(* Types.                                                                  *)

LEMMA ReturnType ==
    ASSUME TypeOK, pc \in {"read", "skip"}, NEW r \in Int, NEW u \in Seq(UnitType), Return(r, u)
    PROVE  /\ pc' \in {"open", "skip"} /\ room' \in Nat /\ toskip' \in Nat
           /\ pc' = "skip" => room' <= DUMMYBUFSIZE
           /\ got' \in Seq(UnitType) /\ goal' \in Int /\ result' \in Int /\ offset' \in Int
  <1>0. toskip \in Nat /\ goal \in Int /\ result \in Int /\ offset \in Int
    BY DEF TypeOK
  <1>1. CASE pc = "read"
    BY <1>0, <1>1 DEF Return
  <1>2. CASE pc = "skip"
    <2> DEFINE len  == Chunk(toskip)
               left == IF r = len THEN toskip - len ELSE 0
               next == Chunk(left)
    <2>1. /\ toskip' = left /\ room' = next /\ got' = <<>>
          /\ pc' = IF left > 0 THEN "skip" ELSE "open"
          /\ result' = IF r # len THEN -1 ELSE IF left > 0 THEN result ELSE goal
          /\ offset' = IF r # len THEN -1 ELSE IF left > 0 THEN offset ELSE goal
          /\ goal' = goal
      BY <1>2 DEF Return
    <2>l. len = Chunk(toskip)
      OBVIOUS
    <2> HIDE DEF len
    <2>2. len \in Nat /\ len <= toskip
      BY <1>0, <2>l, ChunkIs
    <2>3. left \in Nat
      BY <1>0, <2>2
    <2>n. next = Chunk(left)
      OBVIOUS
    <2> HIDE DEF left, next
    <2>4. next \in Nat /\ next <= DUMMYBUFSIZE
      BY <2>3, <2>n, ChunkIs
    <2> QED
      BY <1>0, <2>1, <2>3, <2>4
  <1> QED
    BY <1>1, <1>2

LEMMA FirstOfIs ==
    ASSUME NEW q \in Seq(UnitType), NEW k \in 0 .. Len(q), NEW t, t = FirstOf(q, k)
    PROVE  t \in Seq(UnitType) /\ Len(t) = k
  <1>1. Len(q) \in Nat /\ \A i \in 1 .. k : q[i] \in UnitType
    OBVIOUS
  <1>2. t = SubSeq(q, 1, k)
    BY DEF FirstOf
  <1>3. t \in Seq(UnitType) /\ Len(t) = IF 1 <= k THEN k - 1 + 1 ELSE 0
    BY <1>1, <1>2, SubSeqProperties
  <1> QED
    BY <1>1, <1>3

(* A turn over a plain kernel.                                             *)
LEMMA TransparentIs ==
    ASSUME TypeOK, MayTurn, bf.transparent, ReadTransparent
    PROVE  \E t \in Slot, n \in Nat, units \in Seq(UnitType), all \in Seq(UnitType) :
             /\ n <= room /\ n <= Len(bf.ahead)
             /\ units = boot_read(at, room - n)
             /\ t.ahead = AllButFirst(bf.ahead, n) /\ t.pos = at + Len(units)
             /\ t.fd = fd /\ t.consumed = bf.consumed /\ t.total_out = bf.total_out
             /\ t.boot = bf.boot /\ t.gz = bf.gz /\ t.ended = bf.ended
             /\ t.transparent = bf.transparent /\ t.z_err = bf.z_err
             /\ Keep(t) /\ all = got \o FirstOf(bf.ahead, n) \o units /\ Return(Len(all), all)
             /\ (bf.ahead = <<>> => n = 0)
  <1> DEFINE n == Min({Len(bf.ahead), room})
             first == FirstOf(bf.ahead, n)
             units == boot_read(bf.pos, room - n)
             all == got \o first \o units
             a == AllButFirst(bf.ahead, n)
             p == bf.pos + Len(units)
             t == [bf EXCEPT !.ahead = a, !.pos = p]
  <1>1. Keep(t) /\ Return(Len(all), all)
    <2>1. t = [bf EXCEPT !.ahead = AllButFirst(@, n), !.pos = @ + Len(units)]
      OBVIOUS
    <2> QED
      BY <2>1 DEF ReadTransparent
  <1>0. bf \in Slot /\ bf.fd = fd /\ bf.pos = at
    BY LookupIs DEF TypeOK, MayTurn
  <1>2. /\ Len(bf.ahead) \in Nat /\ bf.ahead \in Seq(UnitType) /\ room \in Nat /\ at \in Int
        /\ got \in Seq(UnitType) /\ place \in Places
    BY <1>0, FieldTypes DEF TypeOK
  <1>3. n = IF Len(bf.ahead) <= room THEN Len(bf.ahead) ELSE room
    BY <1>2, LesserOf
  <1> HIDE DEF n
  <1>4. n \in 0 .. Len(bf.ahead) /\ n <= room /\ n \in Nat /\ room - n \in Nat
    BY <1>2, <1>3
  <1>u. units = boot_read(at, room - n)
    BY <1>0
  <1>f. first = FirstOf(bf.ahead, n)
    OBVIOUS
  <1>a. a = AllButFirst(bf.ahead, n)
    OBVIOUS
  <1> HIDE DEF units, first, a
  <1>5. units \in Seq(UnitType)
    <2> DEFINE m == room - n
    <2>1. m \in Nat /\ units = boot_read(at, m)
      BY <1>4, <1>u
    <2> HIDE DEF m
    <2> QED
      BY <1>2, <2>1, BootReadIs
  <1>6. first \in Seq(UnitType)
    BY <1>2, <1>4, <1>f, FirstOfIs
  <1>7. a \in Seq(UnitType)
    BY <1>2, <1>4, <1>a, SubSeqIs
  <1>8. all \in Seq(UnitType)
    BY <1>2, <1>5, <1>6
  <1>p. p \in Int /\ p = at + Len(units)
    BY <1>0, <1>2, <1>5
  <1>l. all = got \o first \o units
    OBVIOUS
  <1>t. t = [bf EXCEPT !.ahead = a, !.pos = p]
    OBVIOUS
  <1> HIDE DEF p, all, t
  <1>9. t \in Slot
    BY <1>0, <1>7, <1>p, <1>t DEF Slot
  <1>10. /\ t.ahead = a /\ t.pos = p
         /\ t.fd = bf.fd /\ t.consumed = bf.consumed /\ t.total_out = bf.total_out
         /\ t.boot = bf.boot /\ t.gz = bf.gz /\ t.ended = bf.ended
         /\ t.transparent = bf.transparent /\ t.z_err = bf.z_err
    BY <1>0, <1>t DEF Slot
  <1>11. /\ t.ahead = AllButFirst(bf.ahead, n) /\ t.pos = at + Len(units)
         /\ t.fd = fd /\ t.consumed = bf.consumed /\ t.total_out = bf.total_out
         /\ t.boot = bf.boot /\ t.gz = bf.gz /\ t.ended = bf.ended
         /\ t.transparent = bf.transparent /\ t.z_err = bf.z_err
    BY <1>0, <1>10, <1>a, <1>p
  <1>12. all = got \o FirstOf(bf.ahead, n) \o units
    BY <1>f, <1>l
  <1>13. bf.ahead = <<>> => n = 0
    <2>1. bf.ahead = <<>> => Len(bf.ahead) = 0
      OBVIOUS
    <2> QED
      BY <1>4, <2>1
  <1>14. n \in Nat /\ n <= room /\ n <= Len(bf.ahead)
    BY <1>2, <1>4
  <1>15. t \in Slot /\ n \in Nat /\ units \in Seq(UnitType) /\ all \in Seq(UnitType)
    BY <1>4, <1>5, <1>8, <1>9
  <1> USE <1>15
  <1> WITNESS t \in Slot, n \in Nat, units \in Seq(UnitType), all \in Seq(UnitType)
  <1> QED
    BY <1>1, <1>11, <1>12, <1>13, <1>14, <1>u

(* A turn over a compressed one.                                           *)
LEMMA CompressedIs ==
    ASSUME TypeOK, Slots, ReadCompressed
    PROVE  \E t \in Slot, out \in Seq(UnitType) :
             /\ t.fd = fd /\ t.boot = bf.boot /\ t.gz = bf.gz /\ Bounded(t)
             /\ bf.ended => t.ended
             /\ Len(out) \in 0 .. room
             /\ File[file].gz /\ Coding(bf) /\ ~t.ended =>
                  /\ Delivers(out, bf.total_out) /\ t.total_out = bf.total_out + Len(out)
                  /\ Finished(t) \/ (Coding(t) /\ (Len(out) < room => ~EndsRead(t)))
             /\ Keep(t)
             /\ IF Len(out) = room \/ EndsRead(t)
                THEN Return(Len(got \o out), got \o out)
                ELSE /\ got' = got \o out /\ room' = room - Len(out)
                     /\ UNCHANGED <<pc, toskip, goal, result, offset>>
  <1>1. PICK r \in {inflate(Refilled(bf), room)} : \E t \in {After(r)} :
             /\ Keep(t)
             /\ IF Len(r.out) = room \/ EndsRead(t)
                THEN Return(Len(got \o r.out), got \o r.out)
                ELSE /\ got' = got \o r.out /\ room' = room - Len(r.out)
                     /\ UNCHANGED <<pc, toskip, goal, result, offset>>
    BY DEF ReadCompressed, After
  <1>p. PICK t \in {After(r)} :
             /\ Keep(t)
             /\ IF Len(r.out) = room \/ EndsRead(t)
                THEN Return(Len(got \o r.out), got \o r.out)
                ELSE /\ got' = got \o r.out /\ room' = room - Len(r.out)
                     /\ UNCHANGED <<pc, toskip, goal, result, offset>>
    BY <1>1
  <1> DEFINE out == r.out
  <1>2. Found /\ room > 0 /\ pc \in {"read", "skip"}
    BY DEF ReadCompressed, MayTurn
  <1>3. bf \in Slot /\ bf.fd = fd /\ Bounded(bf)
    <2>1. /\ lookup_bf \in 1 .. Len(booter_files) /\ bf \in Slot /\ bf.fd = fd
          /\ bf.consumed = booter_files[lookup_bf].consumed
          /\ bf.total_out = booter_files[lookup_bf].total_out
      BY <1>2, LookupIs DEF TypeOK
    <2>2. Bounded(booter_files[lookup_bf])
      BY <2>1 DEF Slots, SlotRight, TypeOK
    <2> QED
      BY <2>1, <2>2 DEF Bounded
  <1>4. place \in Places /\ room \in Nat
    BY DEF TypeOK
  <1>5. r = inflate(Refilled(bf), room) /\ t = After(r)
    OBVIOUS
  <1>6. /\ t \in Slot /\ t.fd = bf.fd /\ t.boot = bf.boot /\ t.gz = bf.gz /\ Bounded(t)
        /\ bf.ended => t.ended
        /\ out \in Seq(UnitType) /\ Len(out) \in 0 .. room
        /\ File[file].gz /\ Coding(bf) /\ room > 0 /\ ~t.ended =>
             /\ Delivers(out, bf.total_out)
             /\ t.total_out = bf.total_out + Len(out)
             /\ Finished(t) \/ (Coding(t) /\ (Len(out) < room => ~EndsRead(t)))
    BY <1>3, <1>4, <1>5, TurnIs
  <1>7. /\ Keep(t)
        /\ IF Len(out) = room \/ EndsRead(t)
           THEN Return(Len(got \o out), got \o out)
           ELSE /\ got' = got \o out /\ room' = room - Len(out)
                /\ UNCHANGED <<pc, toskip, goal, result, offset>>
    BY <1>p
  <1> HIDE DEF out
  <1>8. t \in Slot /\ out \in Seq(UnitType)
    BY <1>6
  <1> USE <1>8
  <1> WITNESS t \in Slot, out \in Seq(UnitType)
  <1> QED
    BY <1>2, <1>3, <1>6, <1>7

LEMMA NewSlotIs ==
    ASSUME NEW d \in Int, NEW s, s = NewSlot(d)
    PROVE  s \in Slot /\ s.boot = 0 /\ Fresh(s) /\ Bounded(s)
  <1>1. <<>> \in Seq(UnitType) /\ "Z_OK" \in Errors
    BY DEF Errors
  <1>2. s \in Slot
    BY <1>1 DEF NewSlot, Slot
  <1>3. s.boot = 0 /\ Fresh(s)
    BY DEF NewSlot, Fresh
  <1>4. Bounded(s)
    <2>1. s.consumed = 0 /\ s.total_out = 0 /\ Ratio \in Nat
      BY <1>3, SizesAssumption DEF Fresh
    <2> QED
      BY <2>1 DEF Bounded
  <1> QED
    BY <1>2, <1>3, <1>4

(* The one that has not been initialised.                                  *)
LEMMA DeadSlotIs ==
    ASSUME NEW d \in Int, NEW live \in BOOLEAN, NEW t,
           t = [NewSlot(d) EXCEPT !.inbuf = FALSE, !.live = live]
    PROVE  t \in Slot /\ t.boot = 0 /\ Bounded(t)
  <1> DEFINE s == NewSlot(d)
  <1>1. s \in Slot /\ s.boot = 0 /\ Bounded(s)
    BY NewSlotIs
  <1>2. t = [s EXCEPT !.inbuf = FALSE, !.live = live]
    OBVIOUS
  <1> HIDE DEF s
  <1>3. t \in Slot /\ t.boot = s.boot /\ t.consumed = s.consumed /\ t.total_out = s.total_out
    BY <1>1, <1>2 DEF Slot
  <1> QED
    BY <1>1, <1>3 DEF Bounded

(* A descriptor is left.                                                   *)
LEMMA FreeDescriptor ==
    ASSUME TypeOK, Opened, boots < MaxBoots, NEW d,
           d = IF place'[1] = "net" THEN kFooFileID ELSE Min((0 .. MaxBoots) \ inuse)
    PROVE  d \in Int /\ d \in 0 .. MaxBoots \cup {kFooFileID}
  <1>0. MaxBoots \in Nat /\ boots \in Nat
    BY BoundsAssumption DEF TypeOK
  <1>1. IsFiniteSet(0 .. MaxBoots) /\ Cardinality(0 .. MaxBoots) = MaxBoots + 1
    BY <1>0, FS_Interval
  <1>2. (0 .. MaxBoots) \ inuse # {}
    <2>1. ASSUME 0 .. MaxBoots \subseteq inuse PROVE FALSE
      <3>1. Cardinality(0 .. MaxBoots) <= Cardinality(inuse) /\ Cardinality(inuse) \in Nat
        BY <2>1, FS_Subset, FS_CardinalityType DEF Opened
      <3> QED
        BY <1>0, <1>1, <3>1 DEF Opened
    <2> QED
      BY <2>1
  <1> DEFINE F == (0 .. MaxBoots) \ inuse
  <1>3. F \in SUBSET Nat /\ F # {} /\ F \subseteq 0 .. MaxBoots
    BY <1>0, <1>2
  <1>4. d = kFooFileID \/ d = Min(F)
    OBVIOUS
  <1> HIDE DEF F
  <1>5. Min(F) \in F
    BY <1>3, LeastOf
  <1> QED
    BY <1>0, <1>3, <1>4, <1>5 DEF kFooFileID

LEMMA CloseIs ==
    ASSUME TypeOK, NEW d, gzboot_close(d)
    PROVE  /\ booter_files' \in Seq(Slot) /\ Len(booter_files') = Len(booter_files)
           /\ inuse' \subseteq inuse
           /\ \A i \in DOMAIN booter_files' :
                /\ booter_files'[i].consumed = booter_files[i].consumed
                /\ booter_files'[i].total_out = booter_files[i].total_out
                /\ booter_files'[i].boot = booter_files[i].boot
                /\ booter_files'[i].gz = booter_files[i].gz
                /\ booter_files'[i].transparent = booter_files[i].transparent
                /\ booter_files'[i].z_err = booter_files[i].z_err
  <1>0. booter_files \in Seq(Slot)
    BY DEF TypeOK
  <1>1. CASE Having(d) = {}
    BY <1>0, <1>1 DEF gzboot_close
  <1>2. CASE Having(d) # {}
    <2> DEFINE k == Min(Having(d))
               s == booter_files[k]
               a == JunkOf(s.ahead)
               t == [s EXCEPT !.inbuf = FALSE, !.live = FALSE, !.ahead = a]
    <2>1. Having(d) \in SUBSET Nat /\ Having(d) \subseteq 1 .. Len(booter_files)
      BY <1>0 DEF Having
    <2>2. k \in 1 .. Len(booter_files)
      BY <1>2, <2>1, LeastOf
    <2>3. inuse' = inuse \ {d} /\ booter_files' = [booter_files EXCEPT ![k] = t]
      BY <1>2, <2>2, <1>0 DEF gzboot_close
    <2> HIDE DEF k
    <2>4. s \in Slot
      BY <1>0, <2>2
    <2>t. t = [s EXCEPT !.inbuf = FALSE, !.live = FALSE, !.ahead = a]
      OBVIOUS
    <2>s. s = booter_files[k]
      OBVIOUS
    <2>5. a \in Seq(UnitType)
      <3>1. s.ahead \in Seq(UnitType)
        BY <2>4, FieldTypes
      <3> HIDE DEF s
      <3> QED
        BY <3>1, JunkSeq
    <2> HIDE DEF s, a, t
    <2>6. t \in Slot
      BY <2>4, <2>5, <2>t DEF Slot
    <2>7. /\ t.consumed = s.consumed /\ t.total_out = s.total_out /\ t.boot = s.boot
          /\ t.gz = s.gz /\ t.transparent = s.transparent /\ t.z_err = s.z_err
      BY <2>4, <2>t DEF Slot
    <2>8. /\ booter_files' \in Seq(Slot) /\ Len(booter_files') = Len(booter_files)
          /\ \A i \in DOMAIN booter_files' :
               booter_files'[i] = IF i = k THEN t ELSE booter_files[i]
      BY <1>0, <2>2, <2>3, <2>6
    <2> QED
      BY <2>3, <2>7, <2>8, <2>s
  <1> QED
    BY <1>1, <1>2

LEMMA InitRight == Init => IInv
  <1> SUFFICES ASSUME Init PROVE IInv
    OBVIOUS
  <1>1. booter_files \in Seq(Slot) /\ Len(booter_files) = 0 /\ DOMAIN booter_files = {}
    BY DEF Init
  <1>2. TypeOK
    <2>1. /\ MaxBoots \in Nat /\ MaxCalls \in Nat /\ MaxFailures \in Nat
          /\ MAX_BOOTER_FILES \in Nat
      BY BoundsAssumption, SizesAssumption
    <2>2. got \in Seq(UnitType) /\ call \in [op : {"none", "read", "seek"}, from : Int, asked : Int]
      BY DEF Init, NoCall
    <2> QED
      BY <1>1, <2>1, <2>2 DEF Init, TypeOK
  <1>3. Opened
    BY FS_EmptySet DEF Init, Opened
  <1>4. Slots /\ Starting /\ Attached
    BY <1>1 DEF Init, Slots, Starting, Attached, Working
  <1> QED
    BY <1>2, <1>3, <1>4 DEF IInv

LEMMA OpenRight == IInv /\ Open => IInv'
  <1> SUFFICES ASSUME IInv, Open PROVE IInv'
    OBVIOUS
  <1>0. /\ booter_files \in Seq(Slot) /\ Len(booter_files) \in Nat
        /\ Len(booter_files) <= MAX_BOOTER_FILES /\ MAX_BOOTER_FILES \in Nat
        /\ boots \in Nat /\ boots < MaxBoots /\ MaxBoots \in Nat /\ boots' = boots + 1
        /\ kern_fd \in Int /\ failures \in 0 .. MaxFailures /\ MaxFailures \in Nat
        /\ MaxCalls \in Nat
    <2>1. /\ MAX_BOOTER_FILES \in Nat /\ MaxBoots \in Nat /\ MaxFailures \in Nat
          /\ MaxCalls \in Nat
      BY BoundsAssumption, SizesAssumption
    <2>2. /\ booter_files \in Seq(Slot) /\ Len(booter_files) <= MAX_BOOTER_FILES
          /\ kern_fd \in Int /\ failures \in 0 .. MaxFailures /\ boots \in 0 .. MaxBoots
      BY DEF IInv, TypeOK
    <2>3. boots < MaxBoots /\ boots' = boots + 1
      BY DEF Open
    <2> QED
      BY <2>1, <2>2, <2>3
  <1>1. fd' \in Int /\ fd' \in 0 .. MaxBoots \cup {kFooFileID}
    BY <1>0, FreeDescriptor DEF IInv, Open
  <1>2. \/ UNCHANGED booter_files /\ pc' = "open"
        \/ /\ pc' \in {"header", "idle"} /\ Len(booter_files) < MAX_BOOTER_FILES
           /\ \E s \in Slot : /\ booter_files' = Append(booter_files, s) /\ s.boot = 0 /\ Bounded(s)
                              /\ pc' = "header" => Fresh(s)
    <2>1. CASE UNCHANGED booter_files /\ pc' = "open"
      BY <2>1
    <2>2. CASE /\ Len(booter_files) < MAX_BOOTER_FILES
               /\ booter_files' = Append(booter_files, NewSlot(fd')) /\ pc' = "header"
      <3> DEFINE s == NewSlot(fd')
      <3>1. s \in Slot /\ s.boot = 0 /\ Bounded(s) /\ Fresh(s)
        BY <1>1, NewSlotIs
      <3> HIDE DEF s
      <3>2. booter_files' = Append(booter_files, s)
        BY <2>2 DEF s
      <3> QED
        BY <2>2, <3>1, <3>2
    <2>3. CASE /\ Len(booter_files) < MAX_BOOTER_FILES
               /\ \E live \in BOOLEAN :
                    booter_files' = Append(booter_files,
                                           [NewSlot(fd') EXCEPT !.inbuf = FALSE, !.live = live])
               /\ pc' = "idle"
      <3>1. PICK live \in BOOLEAN :
                    booter_files' = Append(booter_files,
                                           [NewSlot(fd') EXCEPT !.inbuf = FALSE, !.live = live])
        BY <2>3
      <3> DEFINE t == [NewSlot(fd') EXCEPT !.inbuf = FALSE, !.live = live]
      <3>2. t = [NewSlot(fd') EXCEPT !.inbuf = FALSE, !.live = live] /\ booter_files' = Append(booter_files, t)
        BY <3>1
      <3> HIDE DEF t
      <3>3. t \in Slot /\ t.boot = 0 /\ Bounded(t)
        BY <1>1, <3>2, DeadSlotIs
      <3> QED
        BY <2>3, <3>2, <3>3
    <2> QED
      BY <2>1, <2>2, <2>3 DEF Open
  <1>3. TypeOK'
    <2>1. booter_files' \in Seq(Slot) /\ Len(booter_files') <= MAX_BOOTER_FILES
      <3>1. CASE UNCHANGED booter_files
        BY <1>0, <3>1
      <3>2. CASE Len(booter_files) < MAX_BOOTER_FILES
        <4>1. ASSUME NEW s \in Slot, booter_files' = Append(booter_files, s)
              PROVE  booter_files' \in Seq(Slot) /\ Len(booter_files') = Len(booter_files) + 1
          BY <1>0, <4>1
        <4> QED
          BY <1>0, <1>2, <3>2, <4>1
      <3> QED
        BY <1>2, <3>1, <3>2
    <2>2. /\ place' \in Places /\ at' = 0 /\ calls' = 0 /\ result' = 0 /\ room' = 0
          /\ got' = <<>> /\ toskip' = 0 /\ goal' = 0 /\ call' = NoCall /\ offset' = -1
          /\ pc' \in {"header", "open", "idle"} /\ kern_fd' \in Int
          /\ failures' \in 0 .. MaxFailures /\ inuse' = inuse \cup {fd'}
      <3>1. /\ place' \in Places /\ at' = 0 /\ calls' = 0 /\ result' = 0 /\ room' = 0
            /\ got' = <<>> /\ toskip' = 0 /\ goal' = 0 /\ call' = NoCall /\ offset' = -1
            /\ inuse' = inuse \cup {fd'}
        BY DEF Open
      <3>2. /\ kern_fd' \in {fd', kern_fd, -1}
            /\ \/ failures' = failures
               \/ failures' = failures + 1 /\ failures < MaxFailures
        BY DEF Open
      <3>3. kern_fd' \in Int /\ failures' \in 0 .. MaxFailures
        BY <1>0, <1>1, <3>2
      <3> QED
        BY <1>2, <3>1, <3>3
    <2>3. inuse' \subseteq 0 .. MaxBoots \cup {kFooFileID} /\ boots' \in 0 .. MaxBoots
      BY <1>0, <1>1, <2>2 DEF IInv, TypeOK
    <2> QED
      BY <1>0, <1>1, <2>1, <2>2, <2>3 DEF TypeOK, NoCall
  <1>4. Opened'
    <2>1. IsFiniteSet(inuse) /\ Cardinality(inuse) <= boots /\ inuse' = inuse \cup {fd'}
      BY DEF IInv, Opened, Open
    <2>2. Cardinality(inuse) \in Nat
      BY <2>1, FS_CardinalityType
    <2>3. /\ IsFiniteSet(inuse')
          /\ Cardinality(inuse') = IF fd' \in inuse THEN Cardinality(inuse) ELSE Cardinality(inuse) + 1
      BY <2>1, FS_AddElement
    <2> QED
      BY <1>0, <2>1, <2>2, <2>3 DEF Opened
  <1>5. ASSUME NEW i \in DOMAIN booter_files', NEW t, t = booter_files'[i]
        PROVE  /\ t \in Slot /\ Bounded(t) /\ t.boot < boots'
               /\ t.boot > 0 /\ ~t.gz => t.transparent /\ t.z_err = "Z_OK"
    <2>1. ASSUME i \in DOMAIN booter_files, t = booter_files[i]
          PROVE  /\ t \in Slot /\ Bounded(t) /\ t.boot < boots'
                 /\ t.boot > 0 /\ ~t.gz => t.transparent /\ t.z_err = "Z_OK"
      <3>1. t \in Slot /\ SlotRight(t)
        BY <1>0, <2>1 DEF IInv, Slots
      <3>2. t.boot \in Nat
        BY <3>1, FieldTypes
      <3> QED
        BY <1>0, <3>1, <3>2 DEF SlotRight
    <2>2. ASSUME NEW s \in Slot, t = s, s.boot = 0, Bounded(s)
          PROVE  /\ t \in Slot /\ Bounded(t) /\ t.boot < boots'
                 /\ t.boot > 0 /\ ~t.gz => t.transparent /\ t.z_err = "Z_OK"
      BY <1>0, <2>2
    <2>3. CASE UNCHANGED booter_files
      BY <1>5, <2>1, <2>3
    <2>4. CASE \E s \in Slot : booter_files' = Append(booter_files, s) /\ s.boot = 0 /\ Bounded(s)
      <3>1. PICK s \in Slot : booter_files' = Append(booter_files, s) /\ s.boot = 0 /\ Bounded(s)
        BY <2>4
      <3>2. \/ i \in DOMAIN booter_files /\ t = booter_files[i]
            \/ t = s
        BY <1>0, <1>5, <3>1
      <3> QED
        BY <2>1, <2>2, <3>1, <3>2
    <2> QED
      BY <1>2, <2>3, <2>4
  <1>6. Slots'
    <2> SUFFICES ASSUME NEW i \in DOMAIN booter_files'
                 PROVE  SlotRight(booter_files[i])'
      BY DEF Slots
    <2>1. PICK t : t = booter_files'[i]
      OBVIOUS
    <2>2. /\ t \in Slot /\ Bounded(t) /\ t.boot < boots'
          /\ t.boot > 0 /\ ~t.gz => t.transparent /\ t.z_err = "Z_OK"
      BY <1>5, <2>1
    <2>3. t.boot \in Nat /\ t.boot <= boots' /\ t.boot # boots'
      BY <1>0, <2>2, FieldTypes
    <2> QED
      BY <2>1, <2>2, <2>3 DEF SlotRight, Bounded
  <1>7. Starting'
    <2>1. call' = NoCall /\ offset' = -1 /\ boots' > 0
      <3>1. call' = NoCall /\ offset' = -1
        BY DEF Open
      <3> QED
        BY <1>0, <3>1
    <2>2. ASSUME pc' = "header"
          PROVE  Len(booter_files') > 0 /\ Fresh(booter_files[Len(booter_files)])'
      <3>1. PICK s \in Slot : booter_files' = Append(booter_files, s) /\ Fresh(s)
        BY <1>2, <2>2
      <3>2. Len(booter_files') > 0 /\ booter_files'[Len(booter_files')] = s
        BY <1>0, <3>1
      <3> QED
        BY <3>1, <3>2 DEF Fresh
    <2> QED
      BY <2>1, <2>2 DEF Starting, NoCall
  <1>8. Attached'
    <2> SUFFICES ASSUME Working'
                 PROVE  (Plain(bf) => PlainAt(bf))' /\ ~Own(bf)'
      BY DEF Attached
    <2>1. call'.op = "none" /\ offset' = -1 /\ pc' \in {"header", "open", "idle"}
      BY DEF Open, NoCall
    <2>2. Found' /\ pc' = "open"
      BY <2>1 DEF Working
    <2>3. PlainAt(bf)'
      BY <2>1, <2>2 DEF PlainAt, ReadAnswer, SeekAnswer
    <2>4. lookup_bf' \in DOMAIN booter_files' /\ bf'.boot = booter_files'[lookup_bf'].boot
      BY <1>3, <2>2, NextLookupIs DEF TypeOK
    <2>5. bf'.boot < boots' /\ bf'.boot \in Nat
      <3>1. PICK t : t = booter_files'[lookup_bf']
        OBVIOUS
      <3>2. t \in Slot /\ t.boot < boots'
        BY <1>5, <2>4, <3>1
      <3> QED
        BY <2>4, <3>1, <3>2, FieldTypes
    <2> QED
      BY <1>0, <2>3, <2>5 DEF Own
  <1> QED
    BY <1>3, <1>4, <1>6, <1>7, <1>8 DEF IInv

(* Where the kernel does not change, a stream stays where it is.           *)
LEMMA CodingKept ==
    ASSUME place' = place, NEW t, Coding(t)
    PROVE  Coding(t)'
  <1>1. file' = file /\ Length' = Length /\ Codes' = Codes /\ Size' = Size
    BY DEF file, Length, Codes, Size
  <1>2. Units(file)' = Units(file)
    BY DEF file
  <1>3. \A i : UnitAt(i)' = UnitAt(i)
    BY <1>1, <1>2 DEF UnitAt
  <1>4. AheadRight(t)'
    BY <1>3 DEF Coding, AheadRight
  <1> QED
    BY <1>1, <1>4 DEF Coding, Next1

LEMMA FinishedKept ==
    ASSUME place' = place, NEW t, Finished(t)
    PROVE  Finished(t)'
  BY DEF Finished, Size, file

LEMMA SlotsKept ==
    ASSUME Slots, UNCHANGED <<booter_files, boots, place>>, pc # "idle", pc' # "header"
    PROVE  Slots'
  BY DEF Slots, SlotRight, Bounded, file

LEMMA SlotsSet ==
    ASSUME TypeOK, Slots, UNCHANGED <<boots, place>>, pc # "idle", pc' # "header", Found,
           NEW t \in Slot, t.boot = bf.boot, t.gz = bf.gz, Bounded(t),
           Plain(t) => t.transparent /\ t.z_err = "Z_OK",
           DOMAIN booter_files' = DOMAIN booter_files,
           \A i \in DOMAIN booter_files' :
                 booter_files'[i] = IF i = lookup_bf THEN t ELSE booter_files[i]
    PROVE  Slots'
  <1>1. /\ lookup_bf \in 1 .. Len(booter_files)
        /\ bf.boot = booter_files[lookup_bf].boot /\ bf.gz = booter_files[lookup_bf].gz
    BY LookupIs DEF TypeOK
  <1>2. SlotRight(booter_files[lookup_bf])
    BY <1>1 DEF Slots, TypeOK
  <1>f. file' = file
    BY DEF file
  <1>3. /\ Bounded(t) /\ t.boot <= boots' /\ (t.boot = boots' => t.gz = File[file'].gz)
        /\ (t.boot > 0 /\ ~t.gz => t.transparent /\ t.z_err = "Z_OK")
    BY <1>1, <1>2, <1>f DEF SlotRight, Plain
  <1> SUFFICES ASSUME NEW i \in DOMAIN booter_files'
               PROVE  SlotRight(booter_files[i])'
    BY DEF Slots
  <1>4. CASE i = lookup_bf
    BY <1>3, <1>4 DEF SlotRight, Bounded
  <1>5. CASE i # lookup_bf
    <2>1. booter_files'[i] = booter_files[i] /\ SlotRight(booter_files[i])
      BY <1>5 DEF Slots
    <2> QED
      BY <1>f, <2>1 DEF SlotRight, Bounded
  <1> QED
    BY <1>4, <1>5

LEMMA CheckHeaderRight == IInv /\ CheckHeader => IInv'
  <1> SUFFICES ASSUME IInv, CheckHeader PROVE IInv'
    OBVIOUS
  <1> DEFINE n == Len(booter_files)
             s == booter_files[n]
             h == check_header(s)
             g == File[file].gz
             t == [h EXCEPT !.boot = boots, !.gz = g]
  <1>0. /\ booter_files \in Seq(Slot) /\ n \in Nat /\ n > 0 /\ Fresh(s) /\ call = NoCall
        /\ offset = -1 /\ boots > 0 /\ boots \in Nat /\ place \in Places /\ g \in BOOLEAN
        /\ pc = "header"
    <2>1. boots \in Nat
      BY DEF IInv, TypeOK
    <2> QED
      BY <2>1, Sizes DEF IInv, TypeOK, Starting, CheckHeader
  <1>1. /\ booter_files' = [booter_files EXCEPT ![n] = t] /\ at' = h.pos /\ pc' = "open"
        /\ kern_fd' = fd /\ UNCHANGED <<place, fd, inuse, callVars, boots, failures>>
    BY DEF CheckHeader
  <1>s. s \in Slot /\ s = booter_files[n]
    BY <1>0
  <1>h. h = check_header(s)
    OBVIOUS
  <1>g. g = File[file].gz /\ g \in BOOLEAN
    BY <1>0
  <1>t. t = [h EXCEPT !.boot = boots, !.gz = g]
    OBVIOUS
  <1> HIDE DEF s, h, g, t
  <1>2. /\ Kin(s, h) /\ (g => /\ ~h.transparent /\ h.z_err = "Z_OK" /\ AheadRight(h)
                              /\ Next1(h) = 3 /\ ~h.z_eof /\ ~h.next_null)
        /\ (~g => h.transparent /\ h.z_err = "Z_OK")
    <2>1. s.pos = 0 /\ s.ahead = <<>> /\ ~s.z_eof
      BY <1>0 DEF Fresh
    <2>2. Kin(s, h)
      BY <1>0, <1>s, <1>h, HeaderIs
    <2>3. ASSUME g
          PROVE  /\ ~h.transparent /\ h.z_err = "Z_OK" /\ AheadRight(h)
                 /\ Next1(h) = 3 /\ ~h.z_eof /\ ~h.next_null
      <3>1. File[file].gz
        BY <1>g, <2>3
      <3> QED
        BY <1>0, <1>s, <1>h, <2>1, <3>1, CompressedHeader
    <2>4. ASSUME ~g PROVE h.transparent /\ h.z_err = "Z_OK"
      <3>1. ~File[file].gz
        BY <1>g, <2>4
      <3> QED
        BY <1>0, <1>s, <1>h, <2>1, <3>1, PlainHeader
    <2> QED
      BY <2>2, <2>3, <2>4
  <1>3. h \in Slot
    BY <1>2 DEF Kin
  <1>4. t \in Slot
    BY <1>0, <1>3, <1>g, <1>t DEF Slot
  <1>5. /\ t.boot = boots /\ t.gz = g /\ t.consumed = h.consumed /\ t.total_out = h.total_out
        /\ t.ahead = h.ahead /\ t.pos = h.pos /\ t.z_eof = h.z_eof /\ t.next_null = h.next_null
        /\ t.live = h.live /\ t.inbuf = h.inbuf /\ t.ended = h.ended
        /\ t.transparent = h.transparent /\ t.z_err = h.z_err
    BY <1>3, <1>t DEF Slot
  <1>6. /\ t.consumed = 0 /\ t.total_out = 0 /\ t.live /\ t.inbuf /\ ~t.ended
    BY <1>0, <1>2, <1>5 DEF Kin, Fresh
  <1>7. Bounded(t) /\ (~t.gz => t.transparent /\ t.z_err = "Z_OK")
    <2>1. Ratio \in Nat
      BY SizesAssumption
    <2> QED
      BY <1>2, <1>5, <1>6, <2>1 DEF Bounded
  <1>8. /\ booter_files' \in Seq(Slot) /\ Len(booter_files') = n
        /\ DOMAIN booter_files' = DOMAIN booter_files
        /\ \A i \in DOMAIN booter_files' : booter_files'[i] = IF i = n THEN t ELSE booter_files[i]
    BY <1>0, <1>1, <1>4
  <1>9. TypeOK'
    <2>1. at' \in Int
      BY <1>1, <1>3, FieldTypes
    <2> QED
      BY <1>1, <1>8, <2>1 DEF IInv, TypeOK, callVars
  <1>10. Opened' /\ Starting'
    BY <1>0, <1>1 DEF IInv, Opened, Starting
  <1>f. file' = file
    BY <1>1 DEF file
  <1>11. Slots'
    <2> SUFFICES ASSUME NEW i \in DOMAIN booter_files'
                 PROVE  SlotRight(booter_files[i])'
      BY DEF Slots
    <2>1. CASE i = n
      <3>1. booter_files'[i] = t
        BY <1>8, <2>1
      <3> QED
        BY <1>0, <1>1, <1>5, <1>7, <1>f, <1>g, <3>1 DEF SlotRight, Bounded
    <2>2. CASE i # n
      <3>1. booter_files'[i] = booter_files[i] /\ SlotRight(booter_files[i])
        BY <1>8, <2>2 DEF IInv, Slots
      <3>2. booter_files[i] \in Slot
        BY <1>0, <1>8
      <3>3. booter_files[i].boot < boots /\ booter_files[i].boot \in Nat
        BY <1>0, <3>1, <3>2, FieldTypes DEF SlotRight
      <3> QED
        BY <1>0, <1>1, <3>1, <3>3 DEF SlotRight, Bounded
    <2> QED
      BY <2>1, <2>2
  <1>12. Attached'
    <2> SUFFICES ASSUME Found'
                 PROVE  PlainAt(bf)' /\ (Own(bf) => OwnAt(bf))'
      BY DEF Attached, Working
    <2>1. call' = NoCall /\ offset' = -1 /\ pc' = "open"
      BY <1>0, <1>1 DEF callVars
    <2>2. ReadAnswer' /\ SeekAnswer'
      BY <2>1 DEF ReadAnswer, SeekAnswer, NoCall
    <2>3. PlainAt(bf)'
      BY <2>1, <2>2 DEF PlainAt
    <2>4. ASSUME Own(bf)' PROVE OwnAt(bf)'
      <3>1. /\ lookup_bf' \in DOMAIN booter_files' /\ bf'.boot = booter_files'[lookup_bf'].boot
            /\ bf'.gz = booter_files'[lookup_bf'].gz
        BY <1>9, NextLookupIs DEF TypeOK
      <3>2. bf'.boot = boots
        BY <1>1, <2>4 DEF Own
      <3>3. lookup_bf' = n
        <4>1. ASSUME lookup_bf' # n PROVE FALSE
          <5>1. PICK i \in DOMAIN booter_files : i = lookup_bf'
            BY <1>8, <3>1
          <5>2. booter_files'[i] = booter_files[i] /\ SlotRight(booter_files[i])
            BY <1>8, <4>1, <5>1 DEF IInv, Slots
          <5>3. booter_files[i].boot < boots
            BY <1>0, <5>2 DEF SlotRight
          <5>4. booter_files[i].boot = boots
            BY <3>1, <3>2, <5>1, <5>2
          <5> QED
            BY <1>0, <5>3, <5>4
        <4> QED
          BY <4>1
      <3>4. bf' = t
        <4>1. bf' = [booter_files'[lookup_bf'] EXCEPT !.pos = at']
          BY DEF bf
        <4>2. bf' = [t EXCEPT !.pos = t.pos]
          BY <1>1, <1>5, <1>8, <3>1, <3>3, <4>1
        <4>3. [t EXCEPT !.pos = t.pos] = t
          BY <1>4 DEF Slot
        <4> QED
          BY <4>2, <4>3
      <3>5. g
        BY <1>5, <2>4, <3>4 DEF Own
      <3>6. Coding(t)
        <4>1. AheadRight(t) /\ Next1(t) = 3
          BY <1>2, <1>5, <3>5 DEF AheadRight, Next1
        <4>2. Codes \in Nat /\ Size \in Nat \ {0}
          BY <1>0, Sizes
        <4> QED
          BY <1>2, <1>5, <1>6, <3>5, <4>1, <4>2 DEF Coding
      <3>7. PICK c : c = t
        OBVIOUS
      <3>8. Coding(c)'
        BY <1>1, <3>6, <3>7, CodingKept
      <3>9. Coding(bf)'
        BY <3>4, <3>7, <3>8
      <3> QED
        BY <2>1, <2>2, <3>9 DEF OwnAt
    <2> QED
      BY <2>3, <2>4
  <1> QED
    BY <1>9, <1>10, <1>11, <1>12 DEF IInv

LEMMA StreamKept ==
    ASSUME place' = place, NEW c, bf' = c, Coding(c) \/ Finished(c)
    PROVE  (Coding(bf) \/ Finished(bf))'
  <1>1. (Coding(c) \/ Finished(c))'
    BY CodingKept, FinishedKept
  <1> QED
    BY <1>1

(* What is known of the slot in use.                                       *)
LEMMA InUse ==
    ASSUME TypeOK, Slots, Found, pc # "idle"
    PROVE  /\ bf \in Slot /\ bf.fd = fd /\ Bounded(bf) /\ bf.pos = at
           /\ Plain(bf) => bf.transparent /\ bf.z_err = "Z_OK"
           /\ Own(bf) => File[file].gz
  <1>1. /\ lookup_bf \in 1 .. Len(booter_files) /\ bf \in Slot /\ bf.fd = fd /\ bf.pos = at
        /\ LET s == booter_files[lookup_bf]
           IN  /\ bf.consumed = s.consumed /\ bf.total_out = s.total_out
               /\ bf.boot = s.boot /\ bf.gz = s.gz /\ bf.ended = s.ended
               /\ bf.transparent = s.transparent /\ bf.z_err = s.z_err
    BY LookupIs DEF TypeOK
  <1>2. SlotRight(booter_files[lookup_bf])
    BY <1>1 DEF Slots, TypeOK
  <1> QED
    BY <1>1, <1>2 DEF SlotRight, Bounded, Plain, Own

LEMMA StartReadRight == IInv /\ StartRead => IInv'
  <1> SUFFICES ASSUME IInv, StartRead PROVE IInv'
    OBVIOUS
  <1>1. /\ pc = "open" /\ calls < MaxCalls /\ offset # -1 /\ calls' = calls + 1 /\ pc' = "read"
        /\ got' = <<>>
        /\ UNCHANGED <<booter_files, place, fdVars, at, toskip, goal, result, boots, failures, offset>>
    BY DEF StartRead
  <1>2. PICK len \in Lengths :
          room' = len /\ call' = [op |-> "read", from |-> offset, asked |-> len]
    BY DEF StartRead
  <1>3. len \in Nat /\ offset \in Int /\ calls \in 0 .. MaxCalls /\ MaxCalls \in Nat
    BY BoundsAssumption DEF IInv, TypeOK
  <1>4. /\ call' \in [op : {"none", "read", "seek"}, from : Int, asked : Int]
        /\ call'.op = "read" /\ call'.from = offset /\ call'.asked = len
    BY <1>2, <1>3
  <1>5. TypeOK'
    BY <1>1, <1>2, <1>3, <1>4 DEF IInv, TypeOK, fdVars
  <1>6. Opened' /\ Starting' /\ Slots'
    <2>1. Slots'
      BY <1>1, SlotsKept DEF IInv
    <2> QED
      BY <1>1, <2>1 DEF IInv, Opened, Starting, fdVars
  <1>7. Attached'
    <2> SUFFICES ASSUME Found'
                 PROVE  (Plain(bf) => PlainAt(bf))' /\ (Own(bf) => OwnAt(bf))'
      BY DEF Attached, Working
    <2>1. Found /\ bf' = bf
      BY <1>1, Unmoved DEF fdVars
    <2>2. (Plain(bf) => PlainAt(bf)) /\ (Own(bf) => OwnAt(bf)) /\ bf \in Slot
      BY <1>1, <2>1, InUse DEF IInv, Attached, Working
    <2>3. Len(got') = 0 /\ Asked'
      <3>1. Len(got') = 0
        BY <1>1
      <3> QED
        BY <1>1, <1>2, <1>3, <1>4, <3>1 DEF Asked
    <2>4. ASSUME Plain(bf)' PROVE PlainAt(bf)'
      <3>1. PlainAt(bf)
        BY <2>1, <2>2, <2>4 DEF Plain
      <3> QED
        BY <1>1, <2>1, <2>3, <3>1 DEF PlainAt
    <2>5. ASSUME Own(bf)' PROVE OwnAt(bf)'
      <3>1. OwnAt(bf)
        BY <1>1, <2>1, <2>2, <2>5 DEF Own
      <3>2. PICK c : c = bf
        OBVIOUS
      <3>3. (Coding(bf) \/ Finished(bf))'
        BY <1>1, <2>1, <3>1, <3>2, StreamKept DEF OwnAt
      <3>4. bf'.total_out = offset' + Len(got') /\ offset' >= 0
        <4>1. bf.total_out = offset /\ bf.total_out \in Nat
          BY <1>1, <2>2, <3>1, FieldTypes DEF OwnAt
        <4> QED
          BY <1>1, <1>3, <2>1, <2>3, <4>1
      <3>5. Delivers(got, offset)'
        BY <2>3 DEF Delivers
      <3> QED
        BY <1>1, <2>3, <3>3, <3>4, <3>5 DEF OwnAt
    <2> QED
      BY <2>4, <2>5
  <1> QED
    BY <1>5, <1>6, <1>7 DEF IInv

(* A read that returns within a skip.                                      *)
LEMMA ReturnSkip ==
    ASSUME TypeOK, pc = "skip", NEW r, NEW u, Return(r, u), NEW len, len = Chunk(toskip)
    PROVE  /\ len \in Nat /\ len <= toskip /\ got' = <<>> /\ goal' = goal /\ (toskip > 0 => len > 0)
           /\ r # len => /\ pc' = "open" /\ result' = -1 /\ offset' = -1
           /\ r = len /\ toskip = len => pc' = "open" /\ result' = goal /\ offset' = goal
           /\ r = len /\ toskip # len => /\ pc' = "skip" /\ toskip' = toskip - len
                                         /\ room' = Chunk(toskip - len) /\ offset' = offset
                                         /\ room' > 0 /\ toskip' > 0
  <1> DEFINE left == IF r = len THEN toskip - len ELSE 0
  <1>0. toskip \in Nat
    BY DEF TypeOK
  <1>1. len \in Nat /\ len <= toskip /\ (toskip > 0 => len > 0)
    BY <1>0, ChunkIs
  <1>2. /\ toskip' = left /\ room' = Chunk(left) /\ got' = <<>>
        /\ pc' = IF left > 0 THEN "skip" ELSE "open"
        /\ result' = IF r # len THEN -1 ELSE IF left > 0 THEN result ELSE goal
        /\ offset' = IF r # len THEN -1 ELSE IF left > 0 THEN offset ELSE goal
        /\ goal' = goal
    BY DEF Return
  <1>3. CASE r # len
    <2>1. ~(left > 0)
      BY <1>3
    <2> QED
      BY <1>1, <1>2, <1>3, <2>1
  <1>4. CASE r = len /\ toskip = len
    <2>1. ~(left > 0)
      BY <1>0, <1>4
    <2> QED
      BY <1>1, <1>2, <1>4, <2>1
  <1>5. CASE r = len /\ toskip # len
    <2>1. left = toskip - len /\ left > 0 /\ left \in Nat
      BY <1>0, <1>1, <1>5
    <2> HIDE DEF left
    <2>2. Chunk(left) > 0
      BY <2>1, ChunkIs
    <2> QED
      BY <1>1, <1>2, <1>5, <2>1, <2>2
  <1> QED
    BY <1>3, <1>4, <1>5

LEMMA ReadRefusedRight == IInv /\ ReadRefused => IInv'
  <1> SUFFICES ASSUME IInv, ReadRefused PROVE IInv'
    OBVIOUS
  <1>1. /\ pc \in {"read", "skip"}
        /\ UNCHANGED <<booter_files, place, fdVars, at, boots, calls, failures, call>>
    BY DEF ReadRefused
  <1>2. PICK r \in {-1, 0} :
          /\ Return(r, <<>>)
          /\ Found => \/ bf.z_err = "Z_DATA_ERROR" /\ r = -1
                      \/ bf.z_err = "Z_STREAM_END"
                      \/ room = 0 /\ r = 0
    BY DEF ReadRefused
  <1>3. /\ pc' \in {"open", "skip"} /\ room' \in Nat /\ toskip' \in Nat
        /\ pc' = "skip" => room' <= DUMMYBUFSIZE
        /\ got' \in Seq(UnitType) /\ goal' \in Int /\ result' \in Int /\ offset' \in Int
    <2>1. r \in Int /\ <<>> \in Seq(UnitType)
      OBVIOUS
    <2> QED
      BY <1>1, <1>2, <2>1, ReturnType DEF IInv
  <1>4. TypeOK'
    BY <1>1, <1>3 DEF IInv, TypeOK, fdVars
  <1>5. Opened' /\ Starting' /\ Slots'
    <2>1. Slots'
      BY <1>1, <1>3, SlotsKept DEF IInv
    <2> QED
      BY <1>1, <1>3, <2>1 DEF IInv, Opened, Starting, fdVars
  <1>6. Attached'
    <2> SUFFICES ASSUME Found'
                 PROVE  (Plain(bf) => PlainAt(bf))' /\ (Own(bf) => OwnAt(bf))'
      BY DEF Attached, Working
    <2>1. Found /\ bf' = bf
      BY <1>1, Unmoved DEF fdVars
    <2>2. /\ Plain(bf) => PlainAt(bf)
          /\ Own(bf) => OwnAt(bf)
          /\ bf \in Slot /\ (Plain(bf) => bf.z_err = "Z_OK")
      BY <1>1, <2>1, InUse DEF IInv, Attached, Working
    <2>3. room \in Nat /\ got \in Seq(UnitType) /\ Len(got) \in Nat /\ offset \in Int
      BY DEF IInv, TypeOK
    <2>f. file' = file /\ Size' = Size
      BY <1>1 DEF file, Size
    <2>4. ASSUME Plain(bf)' PROVE PlainAt(bf)'
      <3>1. PlainAt(bf) /\ bf.z_err = "Z_OK"
        BY <2>1, <2>2, <2>4 DEF Plain
      <3>2. pc = "read" /\ got = <<>> /\ offset # -1 /\ Asked /\ bf.ahead = <<>> /\ bf.pos = offset
            /\ offset >= 0
        BY <1>1, <3>1 DEF PlainAt
      <3>3. room = 0 /\ r = 0
        BY <1>2, <2>1, <3>1
      <3>4. pc' = "open" /\ result' = 0 /\ got' = <<>> /\ offset' = offset
        BY <1>2, <2>3, <3>2, <3>3 DEF Return
      <3>5. call'.op = "read" /\ call'.asked = 0
        <4>1. Len(got) = 0
          BY <3>2
        <4> QED
          BY <1>1, <3>2, <3>3, <4>1 DEF Asked
      <3>6. ReadAnswer' /\ SeekAnswer'
        <4>1. Len(got') = 0 /\ DOMAIN got' = {}
          BY <3>4
        <4> QED
          BY <3>4, <3>5, <4>1 DEF ReadAnswer, SeekAnswer
      <3> QED
        BY <2>1, <3>2, <3>4, <3>6 DEF PlainAt
    <2>5. ASSUME Own(bf)' PROVE OwnAt(bf)'
      <3>1. OwnAt(bf)
        BY <1>1, <2>1, <2>2, <2>5 DEF Own
      <3>2. PICK c : c = bf
        OBVIOUS
      <3>3. (Coding(bf) \/ Finished(bf))'
        BY <1>1, <2>1, <3>1, <3>2, StreamKept DEF OwnAt
      <3>4. \/ bf.z_err = "Z_DATA_ERROR" /\ r = -1 /\ bf.total_out = Size
            \/ room = 0 /\ r = 0 /\ got = <<>>
        <4>1. bf.z_err # "Z_STREAM_END" /\ (bf.z_err = "Z_DATA_ERROR" => bf.total_out = Size)
          BY <3>1 DEF OwnAt, Coding, Finished
        <4>2. got = <<>> \/ room > 0
          BY <1>1, <3>1 DEF OwnAt
        <4> QED
          BY <1>2, <2>1, <2>3, <4>1, <4>2
      <3>5. CASE pc = "read"
        <4>1. /\ offset >= 0 /\ bf.total_out = offset + Len(got) /\ Asked
              /\ got = <<>> \/ room > 0
          BY <3>1, <3>5 DEF OwnAt
        <4>2. /\ pc' = "open" /\ result' = r /\ got' = <<>>
              /\ offset' = IF r < 0 THEN -1 ELSE offset + r
          BY <1>2, <3>5 DEF Return
        <4>3. Len(got') = 0 /\ DOMAIN got' = {} /\ call'.op = "read" /\ call'.from = offset
              /\ call'.asked = room + Len(got)
          BY <1>1, <4>1, <4>2 DEF Asked
        <4>4. CASE r = -1 /\ bf.total_out = Size
          <5>1. offset + Len(got) = Size
            BY <4>1, <4>4
          <5>2. ~(call'.from + call'.asked <= Size' /\ call'.asked > 0)
            <6>1. got = <<>> => Len(got) = 0
              OBVIOUS
            <6> QED
              BY <2>3, <2>f, <4>1, <4>3, <5>1, <6>1
          <5>3. ReadAnswer' /\ SeekAnswer'
            BY <4>2, <4>3, <4>4, <5>2 DEF ReadAnswer, SeekAnswer
          <5> QED
            BY <3>3, <4>2, <4>4, <5>3 DEF OwnAt
        <4>5. CASE room = 0 /\ r = 0 /\ got = <<>>
          <5>1. Len(got) = 0
            BY <4>5
          <5>2. offset' = offset /\ bf.total_out = offset /\ call'.asked = 0
            BY <2>3, <4>1, <4>2, <4>3, <4>5, <5>1
          <5>3. ReadAnswer' /\ SeekAnswer'
            BY <4>2, <4>3, <4>5, <5>2 DEF ReadAnswer, SeekAnswer
          <5> QED
            BY <2>1, <3>3, <4>2, <5>2, <5>3 DEF OwnAt
        <4> QED
          BY <3>4, <4>4, <4>5
      <3>6. CASE pc = "skip"
        <4> DEFINE len == Chunk(toskip)
        <4>l. len = Chunk(toskip)
          OBVIOUS
        <4> HIDE DEF len
        <4>1. /\ toskip > 0 /\ bf.total_out + toskip = goal + Len(got) /\ room + Len(got) = len
              /\ call.op = "seek" /\ goal = call.asked /\ (got = <<>> \/ room > 0)
          BY <3>1, <3>6, <4>l DEF OwnAt
        <4>2. /\ len \in Nat /\ len <= toskip /\ (toskip > 0 => len > 0)
              /\ r # len => /\ pc' = "open" /\ result' = -1 /\ offset' = -1
          BY <1>2, <3>6, <4>l, ReturnSkip DEF IInv
        <4>3. got = <<>> => Len(got) = 0
          OBVIOUS
        <4>4. r = -1 /\ bf.total_out = Size
          BY <2>3, <3>4, <4>1, <4>2, <4>3
        <4>5. pc' = "open" /\ result' = -1 /\ offset' = -1
          BY <4>2, <4>4
        <4>6. ~(call'.asked <= Size')
          <5>1. Size \in Int /\ toskip \in Int /\ goal \in Int
            BY Sizes DEF IInv, TypeOK
          <5>2. Size + toskip = goal + Len(got) /\ room > 0 /\ room + Len(got) <= toskip
            BY <2>3, <4>1, <4>2, <4>3, <4>4
          <5>3. goal > Size
            BY <2>3, <5>1, <5>2
          <5> QED
            BY <1>1, <2>f, <4>1, <5>1, <5>3
        <4>7. ReadAnswer' /\ SeekAnswer'
          BY <1>1, <4>1, <4>6 DEF ReadAnswer, SeekAnswer
        <4> QED
          BY <3>3, <4>5, <4>7 DEF OwnAt
      <3> QED
        BY <1>1, <3>5, <3>6
    <2> QED
      BY <2>4, <2>5
  <1> QED
    BY <1>4, <1>5, <1>6 DEF IInv

LEMMA ReadTransparentRight == IInv /\ ReadTransparent => IInv'
  <1> SUFFICES ASSUME IInv, ReadTransparent PROVE IInv'
    OBVIOUS
  <1>1. /\ Found /\ pc \in {"read", "skip"} /\ room > 0 /\ bf.transparent /\ MayTurn
        /\ UNCHANGED <<place, fdVars, boots, calls, failures, call>>
    BY DEF ReadTransparent, MayTurn
  <1>2. PICK t \in Slot, n \in Nat, units \in Seq(UnitType), all \in Seq(UnitType) :
             /\ n <= room /\ n <= Len(bf.ahead)
             /\ units = boot_read(at, room - n)
             /\ t.ahead = AllButFirst(bf.ahead, n) /\ t.pos = at + Len(units)
             /\ t.fd = fd /\ t.consumed = bf.consumed /\ t.total_out = bf.total_out
             /\ t.boot = bf.boot /\ t.gz = bf.gz /\ t.ended = bf.ended
             /\ t.transparent = bf.transparent /\ t.z_err = bf.z_err
             /\ Keep(t) /\ all = got \o FirstOf(bf.ahead, n) \o units /\ Return(Len(all), all)
             /\ (bf.ahead = <<>> => n = 0)
    BY <1>1, TransparentIs DEF IInv
  <1>3. /\ pc' \in {"open", "skip"} /\ room' \in Nat /\ toskip' \in Nat
        /\ pc' = "skip" => room' <= DUMMYBUFSIZE
        /\ got' \in Seq(UnitType) /\ goal' \in Int /\ result' \in Int /\ offset' \in Int
    <2>1. Len(all) \in Int
      OBVIOUS
    <2>2. TypeOK /\ pc \in {"read", "skip"} /\ Return(Len(all), all)
      BY <1>1, <1>2 DEF IInv
    <2> QED
      BY <2>1, <2>2, ReturnType
  <1>4. /\ booter_files' \in Seq(Slot) /\ Len(booter_files') = Len(booter_files)
        /\ at' \in Int /\ Found' /\ bf' = t
        /\ \A i \in DOMAIN booter_files' :
              booter_files'[i] = IF i = lookup_bf THEN t ELSE booter_files[i]
    BY <1>1, <1>2, KeepIs DEF IInv, TypeOK, fdVars
  <1>5. TypeOK'
    BY <1>1, <1>3, <1>4 DEF IInv, TypeOK, fdVars
  <1>6. /\ bf \in Slot /\ Bounded(bf) /\ bf.pos = at
        /\ Plain(bf) => bf.transparent /\ bf.z_err = "Z_OK"
    BY <1>1, InUse DEF IInv
  <1>7. Opened' /\ Starting' /\ Slots'
    <2>1. DOMAIN booter_files' = DOMAIN booter_files
      BY <1>4 DEF IInv, TypeOK
    <2>2. Bounded(t) /\ (Plain(t) => t.transparent /\ t.z_err = "Z_OK")
      BY <1>2, <1>6 DEF Bounded, Plain
    <2>3. Slots'
      BY <1>1, <1>2, <1>3, <1>4, <2>1, <2>2, SlotsSet DEF IInv
    <2> QED
      BY <1>1, <1>3, <2>3 DEF IInv, Opened, Starting, fdVars
  <1>f. file' = file /\ Size' = Size
    BY <1>1 DEF file, Size
  <1>8. ASSUME Own(bf)' PROVE FALSE
    <2>1. OwnAt(bf)
      BY <1>1, <1>2, <1>4, <1>8 DEF IInv, Attached, Working, Own
    <2> QED
      BY <1>1, <2>1 DEF OwnAt, Coding, Finished
  <1>9. ASSUME Plain(bf)' PROVE PlainAt(bf)'
    <2>1. PlainAt(bf)
      BY <1>1, <1>2, <1>4, <1>9 DEF IInv, Attached, Working, Plain
    <2>2. /\ pc = "read" /\ got = <<>> /\ Asked /\ bf.ahead = <<>> /\ at = offset /\ offset >= 0
          /\ n = 0
      BY <1>1, <1>2, <1>6, <2>1 DEF PlainAt
    <2>3. all = units /\ t.ahead = <<>>
      <3> DEFINE first == FirstOf(bf.ahead, n)
                 rest == AllButFirst(bf.ahead, n)
      <3>1. bf.ahead \in Seq(UnitType) /\ n \in 0 .. Len(bf.ahead) /\ Len(bf.ahead) = 0
        BY <1>6, <2>2, FieldTypes
      <3>f. first = FirstOf(bf.ahead, n)
        OBVIOUS
      <3>r. rest = AllButFirst(bf.ahead, n)
        OBVIOUS
      <3> HIDE DEF first, rest
      <3>2. first \in Seq(UnitType) /\ Len(first) = n
        BY <3>1, <3>f, FirstOfIs
      <3>3. rest \in Seq(UnitType) /\ Len(rest) = 0
        <4>1. rest \in Seq(UnitType) /\ Len(rest) = Len(bf.ahead) - n
          BY <3>1, <3>r, SubSeqIs
        <4> QED
          BY <2>2, <3>1, <4>1
      <3>4. first = <<>> /\ rest = <<>>
        BY <2>2, <3>2, <3>3
      <3>5. all = <<>> \o <<>> \o units
        BY <1>2, <2>2, <3>4, <3>f
      <3>6. <<>> \o <<>> \o units = units
        OBVIOUS
      <3> QED
        BY <1>2, <3>4, <3>5, <3>6, <3>r
    <2>4. room \in Nat /\ at \in Int /\ place \in Places /\ Length \in Nat /\ offset \in Int
      BY UnitsAre DEF IInv, TypeOK
    <2>5. /\ Len(units) \in 0 .. room /\ From(units, at)
          /\ place[1] = "net" => Len(units) = room
          /\ place[1] # "net" => (at + room <= Length => Len(units) = room)
      <3>1. units = boot_read(at, room) /\ room \in Nat /\ at \in Int /\ place \in Places
        <4>1. room - 0 = room
          BY <2>4
        <4> QED
          BY <1>2, <2>2, <2>4, <4>1
      <3> QED
        BY <3>1, BootReadIs
    <2>6. pc' = "open" /\ result' = Len(units) /\ got' = units /\ offset' = offset + Len(units)
      <3>1. /\ pc' = "open" /\ result' = Len(all) /\ got' = all
            /\ offset' = IF Len(all) < 0 THEN -1 ELSE offset + Len(all)
        BY <1>2, <2>2 DEF Return
      <3>2. ~(Len(units) < 0)
        BY <2>4, <2>5
      <3> QED
        BY <2>3, <3>1, <3>2
    <2>7. call'.op = "read" /\ call'.from = at /\ call'.asked = room
      <3>1. Len(got) = 0
        BY <2>2
      <3> QED
        BY <1>1, <2>2, <2>4, <3>1 DEF Asked
    <2>8. ASSUME ~File[file'].gz PROVE ReadAnswer' /\ SeekAnswer'
      <3>1. ~File[file].gz /\ Length = Size + File[file].rest /\ Size \in Nat /\ File[file].rest \in Nat
        BY <1>f, <2>4, <2>8, Sizes DEF Length
      <3>2. at + room <= Size => Len(units) = room
        BY <2>4, <2>5, <3>1
      <3>3. ASSUME NEW i \in 1 .. Len(units), at + i <= Size
            PROVE  units[i] = Kernel(file, at + i - 1)
        <4> DEFINE q == at + i
        <4>1. q \in Int /\ q \in 1 .. Size /\ units[i] = UnitAt(q)
          BY <2>2, <2>4, <2>5, <3>1, <3>3 DEF From
        <4> HIDE DEF q
        <4>2. UnitAt(q) = Kernel(file, q - 1)
          BY <2>4, <3>1, <4>1, UnitAtIs
        <4>3. q - 1 = at + i - 1
          BY <2>4 DEF q
        <4> QED
          BY <4>1, <4>2, <4>3
      <3>4. DOMAIN got' = 1 .. Len(units)
        BY <2>6
      <3> QED
        BY <1>f, <2>6, <2>7, <3>2, <3>3, <3>4 DEF ReadAnswer, SeekAnswer
    <2>9. bf'.ahead = <<>> /\ bf'.pos = offset' /\ offset' >= 0
      BY <1>2, <1>4, <2>2, <2>3, <2>4, <2>5, <2>6
    <2> QED
      BY <2>6, <2>8, <2>9 DEF PlainAt
  <1> QED
    BY <1>5, <1>7, <1>8, <1>9 DEF IInv, Attached

(* Pieces of the kernel, one after the other.                              *)
LEMMA DeliversMore ==
    ASSUME NEW u \in Seq(UnitType), NEW v \in Seq(UnitType), NEW from \in Nat, NEW on \in Nat,
           Delivers(u, from), Delivers(v, on), on = from + Len(u), NEW w, w = u \o v
    PROVE  Delivers(w, from) /\ w \in Seq(UnitType) /\ Len(w) = Len(u) + Len(v)
  <1>1. /\ w \in Seq(UnitType) /\ Len(w) = Len(u) + Len(v)
        /\ \A i \in 1 .. Len(u) : w[i] = u[i]
        /\ \A i \in 1 .. Len(v) : w[Len(u) + i] = v[i]
    BY ConcatAt
  <1>0. Len(u) \in Nat /\ Len(v) \in Nat
    OBVIOUS
  <1>2. ASSUME NEW i \in 1 .. Len(w) PROVE w[i] = Kernel(file, from + i - 1)
    <2>1. CASE i <= Len(u)
      <3>1. i \in 1 .. Len(u)
        BY <1>0, <1>1, <2>1
      <3> QED
        BY <1>1, <3>1 DEF Delivers
    <2>2. CASE i > Len(u)
      <3> DEFINE j == i - Len(u)
      <3>1. j \in 1 .. Len(v) /\ Len(u) + j = i /\ on + j - 1 = from + i - 1
        BY <1>0, <1>1, <2>2
      <3> HIDE DEF j
      <3>2. w[i] = v[j] /\ v[j] = Kernel(file, on + j - 1)
        BY <1>1, <3>1 DEF Delivers
      <3> QED
        BY <3>1, <3>2
    <2> QED
      BY <1>0, <1>1, <2>1, <2>2
  <1> QED
    BY <1>1, <1>2 DEF Delivers

LEMMA Shifted ==
    ASSUME NEW a \in Int, NEW b \in Int, NEW c \in Int, NEW d \in Int, NEW e \in Int,
           a + b = c + d
    PROVE  (a + e) + b = c + (d + e)
  OBVIOUS

LEMMA AddNone ==
    ASSUME NEW a \in Int, NEW z, z = 0
    PROVE  a + z = a
  OBVIOUS

LEMMA ReadCompressedRight == IInv /\ ReadCompressed => IInv'
  <1> SUFFICES ASSUME IInv, ReadCompressed PROVE IInv'
    OBVIOUS
  <1>1. /\ Found /\ pc \in {"read", "skip"} /\ room > 0 /\ ~bf.transparent
        /\ bf.z_err # "Z_DATA_ERROR"
        /\ UNCHANGED <<place, fdVars, boots, calls, failures, call>>
    BY DEF ReadCompressed, MayTurn
  <1>2. PICK t \in Slot, out \in Seq(UnitType) :
             /\ t.fd = fd /\ t.boot = bf.boot /\ t.gz = bf.gz /\ Bounded(t)
             /\ bf.ended => t.ended
             /\ Len(out) \in 0 .. room
             /\ File[file].gz /\ Coding(bf) /\ ~t.ended =>
                  /\ Delivers(out, bf.total_out) /\ t.total_out = bf.total_out + Len(out)
                  /\ Finished(t) \/ (Coding(t) /\ (Len(out) < room => ~EndsRead(t)))
             /\ Keep(t)
             /\ IF Len(out) = room \/ EndsRead(t)
                THEN Return(Len(got \o out), got \o out)
                ELSE /\ got' = got \o out /\ room' = room - Len(out)
                     /\ UNCHANGED <<pc, toskip, goal, result, offset>>
    BY CompressedIs DEF IInv
  <1> DEFINE all == got \o out
             Returns == Len(out) = room \/ EndsRead(t)
  <1>0. /\ room \in Nat /\ Len(out) \in Nat /\ got \in Seq(UnitType) /\ Len(got) \in Nat
        /\ goal \in Int /\ offset \in Int /\ toskip \in Nat /\ Len(out) <= room
        /\ place \in Places /\ Size \in Nat
    <2>1. /\ room \in Nat /\ got \in Seq(UnitType) /\ goal \in Int /\ offset \in Int
          /\ toskip \in Nat /\ place \in Places
      BY DEF IInv, TypeOK
    <2> QED
      BY <1>2, <2>1, Sizes
  <1>3. all \in Seq(UnitType) /\ Len(all) = Len(got) + Len(out) /\ Len(all) \in Int
    <2>1. all \in Seq(UnitType) /\ Len(all) = Len(got) + Len(out)
      <3>1. all = got \o out
        OBVIOUS
      <3> HIDE DEF all
      <3> QED
        BY <1>0, <3>1, ConcatAt
    <2> QED
      BY <1>0, <2>1
  <1>4. /\ booter_files' \in Seq(Slot) /\ Len(booter_files') = Len(booter_files)
        /\ at' \in Int /\ Found' /\ bf' = t
        /\ \A i \in DOMAIN booter_files' :
              booter_files'[i] = IF i = lookup_bf THEN t ELSE booter_files[i]
    BY <1>1, <1>2, KeepIs DEF IInv, TypeOK, fdVars
  <1>r. IF Returns THEN Return(Len(all), all)
        ELSE /\ got' = all /\ room' = room - Len(out)
             /\ UNCHANGED <<pc, toskip, goal, result, offset>>
    BY <1>2
  <1> HIDE DEF all
  <1>5. /\ pc' \in {"open", "read", "skip"} /\ room' \in Nat /\ toskip' \in Nat
        /\ pc' = "skip" => room' <= DUMMYBUFSIZE
        /\ got' \in Seq(UnitType) /\ goal' \in Int /\ result' \in Int /\ offset' \in Int
    <2>1. CASE Returns
      <3>1. TypeOK /\ pc \in {"read", "skip"} /\ Return(Len(all), all)
        BY <1>1, <1>r, <2>1 DEF IInv
      <3> QED
        BY <1>3, <3>1, ReturnType
    <2>2. CASE ~Returns
      <3>1. /\ got' = all /\ room' = room - Len(out)
            /\ UNCHANGED <<pc, toskip, goal, result, offset>>
        BY <1>r, <2>2
      <3>2. room' \in Nat /\ room' <= room
        BY <1>0, <3>1
      <3>3. result \in Int /\ (pc = "skip" => room <= DUMMYBUFSIZE) /\ DUMMYBUFSIZE \in Int
        BY SizesAssumption DEF IInv, TypeOK
      <3> QED
        BY <1>0, <1>1, <1>3, <3>1, <3>2, <3>3
    <2> QED
      BY <2>1, <2>2
  <1>6. TypeOK'
    BY <1>1, <1>4, <1>5 DEF IInv, TypeOK, fdVars
  <1>7. /\ bf \in Slot /\ (Plain(bf) => bf.transparent) /\ (Own(bf) => File[file].gz)
    BY <1>1, InUse DEF IInv
  <1>8. ~Plain(bf) /\ ~Plain(t)
    BY <1>1, <1>2, <1>7 DEF Plain
  <1>9. Opened' /\ Starting' /\ Slots'
    <2>1. DOMAIN booter_files' = DOMAIN booter_files
      BY <1>4 DEF IInv, TypeOK
    <2>2. Slots'
      BY <1>1, <1>2, <1>4, <1>5, <1>8, <2>1, SlotsSet DEF IInv
    <2> QED
      BY <1>1, <1>5, <2>2 DEF IInv, Opened, Starting, fdVars
  <1>f. file' = file /\ Size' = Size
    BY <1>1 DEF file, Size
  <1>10. ~Plain(bf)'
    BY <1>4, <1>8 DEF Plain
  <1>11. ASSUME Own(bf)' PROVE OwnAt(bf)'
    <2>1. Own(bf) /\ ~t.ended
      BY <1>1, <1>2, <1>4, <1>11 DEF Own
    <2>2. OwnAt(bf)
      BY <1>1, <2>1 DEF IInv, Attached, Working
    <2>3. Coding(bf) /\ File[file].gz
      BY <1>1, <1>7, <2>1, <2>2 DEF OwnAt, Finished
    <2>4. /\ Delivers(out, bf.total_out) /\ t.total_out = bf.total_out + Len(out)
          /\ Finished(t) \/ (Coding(t) /\ (Len(out) < room => ~EndsRead(t)))
      BY <1>2, <2>1, <2>3
    <2>5. (Coding(bf) \/ Finished(bf))'
      BY <1>1, <1>4, <2>4, StreamKept
    <2>6. bf.total_out \in Nat /\ t.total_out \in Nat
      BY <1>7, FieldTypes
    <2>7. \/ Len(out) = room
          \/ Returns /\ t.total_out = Size
          \/ ~Returns
      BY <1>0, <2>4 DEF Finished
    <2>8. CASE pc = "read"
      <3>1. /\ offset >= 0 /\ bf.total_out = offset + Len(got) /\ Delivers(got, offset) /\ Asked
        BY <2>2, <2>8 DEF OwnAt
      <3>2. Delivers(all, offset) /\ offset \in Nat
        <4>1. offset \in Nat /\ all = got \o out
          BY <1>0, <3>1 DEF all
        <4> QED
          BY <1>0, <2>4, <2>6, <3>1, <4>1, DeliversMore
      <3>3. call'.op = "read" /\ call'.from = offset /\ call'.asked = room + Len(got)
        BY <1>1, <3>1 DEF Asked
      <3>4. t.total_out = offset + Len(all)
        BY <1>0, <1>3, <2>4, <2>6, <3>1
      <3>5. CASE Returns
        <4>1. /\ pc' = "open" /\ result' = Len(all) /\ got' = all
              /\ offset' = IF Len(all) < 0 THEN -1 ELSE offset + Len(all)
          BY <1>r, <2>8, <3>5 DEF Return
        <4>2. offset' = t.total_out
          BY <1>0, <1>3, <3>4, <4>1
        <4>3. call'.from + call'.asked <= Size /\ call'.asked > 0 => result' = call'.asked
          <5>1. CASE Len(out) = room
            BY <1>0, <1>3, <3>3, <4>1, <5>1
          <5>2. CASE t.total_out = Size
            BY <1>0, <1>3, <3>3, <3>4, <4>1, <5>2
          <5> QED
            BY <2>7, <3>5, <5>1, <5>2
        <4>4. ASSUME NEW i \in DOMAIN got'
              PROVE  got'[i] = Kernel(file, call'.from + i - 1)
          <5>1. i \in 1 .. Len(all)
            BY <1>3, <4>1
          <5> QED
            BY <3>2, <3>3, <4>1, <5>1 DEF Delivers
        <4>5. ReadAnswer' /\ SeekAnswer'
          BY <1>f, <3>3, <4>1, <4>3, <4>4 DEF ReadAnswer, SeekAnswer
        <4> QED
          BY <1>4, <2>5, <4>1, <4>2, <4>5 DEF OwnAt
      <3>6. CASE ~Returns
        <4>1. /\ got' = all /\ room' = room - Len(out)
              /\ UNCHANGED <<pc, toskip, goal, result, offset>>
          BY <1>r, <3>6
        <4>2. room' > 0
          BY <1>0, <3>6, <4>1
        <4>3. Asked'
          <5>1. call'.asked = room' + Len(got')
            <6>1. /\ room' = room - Len(out) /\ Len(got') = Len(got) + Len(out)
                  /\ room \in Int /\ Len(out) \in Int /\ Len(got) \in Int
                  /\ call'.asked = room + Len(got)
              BY <1>0, <1>3, <3>3, <4>1
            <6> QED
              BY <6>1
          <5> QED
            BY <3>3, <4>1, <5>1 DEF Asked
        <4>4. Delivers(got, offset)'
          BY <1>f, <3>2, <4>1 DEF Delivers
        <4> QED
          BY <1>4, <2>5, <2>8, <3>1, <3>4, <4>1, <4>2, <4>3, <4>4 DEF OwnAt
      <3> QED
        BY <3>5, <3>6
    <2>9. CASE pc = "skip"
      <3> DEFINE len == Chunk(toskip)
      <3>l. len = Chunk(toskip)
        OBVIOUS
      <3> HIDE DEF len
      <3>1. /\ toskip > 0 /\ bf.total_out + toskip = goal + Len(got) /\ room + Len(got) = len
            /\ call.op = "seek" /\ goal = call.asked
        BY <2>2, <2>9, <3>l DEF OwnAt
      <3>2. call'.op = "seek" /\ call'.asked = goal
        BY <1>1, <3>1
      <3>3. t.total_out + toskip = goal + Len(all)
        <4>1. /\ t.total_out = bf.total_out + Len(out) /\ Len(all) = Len(got) + Len(out)
              /\ bf.total_out \in Int /\ Len(out) \in Int /\ Len(got) \in Int /\ goal \in Int
              /\ toskip \in Int /\ bf.total_out + toskip = goal + Len(got)
          BY <1>0, <1>3, <2>4, <2>6, <3>1
        <4>2. (bf.total_out + Len(out)) + toskip = goal + (Len(got) + Len(out))
          <5> DEFINE a == bf.total_out
                     d == Len(got)
                     e == Len(out)
          <5>1. /\ a \in Int /\ d \in Int /\ e \in Int /\ goal \in Int /\ toskip \in Int
                /\ a + toskip = goal + d
            BY <4>1
          <5> HIDE DEF a, d, e
          <5>2. (a + e) + toskip = goal + (d + e)
            BY <5>1, Shifted
          <5> QED
            BY <5>2 DEF a, d, e
        <4> QED
          BY <4>1, <4>2
      <3>4. CASE Returns
        <4>1. /\ len \in Nat /\ len <= toskip /\ got' = <<>> /\ goal' = goal
              /\ Len(all) # len => /\ pc' = "open" /\ result' = -1 /\ offset' = -1
              /\ Len(all) = len /\ toskip = len => pc' = "open" /\ result' = goal /\ offset' = goal
              /\ Len(all) = len /\ toskip # len =>
                    /\ pc' = "skip" /\ toskip' = toskip - len
                    /\ room' = Chunk(toskip - len) /\ offset' = offset
                    /\ room' > 0 /\ toskip' > 0
          <5>1. TypeOK /\ Return(Len(all), all)
            BY <1>r, <3>4 DEF IInv
          <5> QED
            BY <2>9, <3>l, <5>1, ReturnSkip
        <4>2. CASE Len(all) # len
          <5>1. t.total_out = Size
            <6>1. Len(all) = Len(got) + Len(out) /\ len = Len(got) + room
              BY <1>0, <1>3, <3>1
            <6>2. Len(out) # room
              BY <4>2, <6>1
            <6> QED
              BY <2>7, <3>4, <6>2
          <5>2. Len(all) < len
            BY <1>0, <1>3, <3>1, <4>2
          <5>3. ~(call'.asked <= Size)
            BY <1>0, <1>3, <3>2, <3>3, <4>1, <5>1, <5>2
          <5>4. ReadAnswer' /\ SeekAnswer'
            BY <1>f, <3>2, <5>3 DEF ReadAnswer, SeekAnswer
          <5> QED
            BY <2>5, <4>1, <4>2, <5>4 DEF OwnAt
        <4>3. CASE Len(all) = len /\ toskip = len
          <5>1. offset' = t.total_out
            BY <1>0, <2>6, <3>3, <4>1, <4>3
          <5>2. ReadAnswer' /\ SeekAnswer'
            BY <3>2, <4>1, <4>3 DEF ReadAnswer, SeekAnswer
          <5> QED
            BY <1>4, <2>5, <4>1, <4>3, <5>1, <5>2 DEF OwnAt
        <4>4. CASE Len(all) = len /\ toskip # len
          <5>1. Len(got') = 0
            BY <4>1
          <5>2. t.total_out + toskip' = goal' + Len(got')
            BY <1>0, <2>6, <3>3, <4>1, <4>4, <5>1
          <5>3. room' + Len(got') = Chunk(toskip)'
            <6>1. Chunk(toskip') = room' /\ room' \in Nat
              BY <1>5, <4>1, <4>4
            <6>2. room' + Len(got') = room'
              <7>1. room' \in Int
                BY <6>1
              <7> QED
                BY <5>1, <7>1, AddNone
            <6>3. room' = Chunk(toskip)'
              BY <6>1 DEF Chunk
            <6> QED
              BY <6>2, <6>3
          <5> QED
            BY <1>4, <2>5, <3>2, <4>1, <4>4, <5>2, <5>3 DEF OwnAt
        <4> QED
          BY <4>2, <4>3, <4>4
      <3>5. CASE ~Returns
        <4>1. /\ got' = all /\ room' = room - Len(out)
              /\ UNCHANGED <<pc, toskip, goal, result, offset>>
          BY <1>r, <3>5
        <4>2. room' > 0 /\ room' + Len(got') = len
          <5>1. /\ room' = room - Len(out) /\ Len(got') = Len(got) + Len(out)
                /\ room \in Int /\ Len(out) \in Int /\ Len(got) \in Int
                /\ room + Len(got) = len /\ Len(out) <= room
            BY <1>0, <1>3, <3>1, <4>1
          <5>2. Len(out) # room
            BY <3>5
          <5> QED
            BY <5>1, <5>2
        <4>3. Chunk(toskip)' = len
          BY <3>l, <4>1 DEF Chunk
        <4> QED
          BY <1>4, <2>5, <2>9, <3>1, <3>2, <3>3, <4>1, <4>2, <4>3 DEF OwnAt
      <3> QED
        BY <3>4, <3>5
    <2> QED
      BY <1>1, <2>8, <2>9
  <1> QED
    BY <1>6, <1>9, <1>10, <1>11 DEF IInv, Attached

(* A seek in a plain kernel.                                               *)
LEMMA SeekAll == IInv /\ Seek => IInv'
  <1> SUFFICES ASSUME IInv, Seek PROVE IInv'
    OBVIOUS
  <1>1. /\ pc = "open" /\ calls < MaxCalls /\ calls' = calls + 1 /\ got' = <<>>
        /\ UNCHANGED <<place, fdVars, boots, failures>>
    BY DEF Seek
  <1>2. PICK pos \in Offsets, cur \in BOOLEAN :
         /\ cur => offset # -1
         /\ LET wanted == IF cur THEN offset + pos ELSE pos
            IN  wanted >= 0 /\ call' = [op |-> "seek", from |-> offset, asked |-> wanted]
         /\ IF ~Found
            THEN /\ result' = -1 /\ offset' = -1
                 /\ UNCHANGED <<booter_files, at, pc, room, toskip, goal>>
            ELSE IF bf.transparent
            THEN LET new == IF cur THEN at + pos - Len(bf.ahead) ELSE pos
                 IN  /\ Keep([bf EXCEPT !.ahead = <<>>, !.pos = new])
                     /\ result' = new /\ offset' = new
                     /\ UNCHANGED <<pc, room, toskip, goal>>
            ELSE LET to == IF cur THEN pos + bf.total_out ELSE pos
                     s  == IF Backward(to, bf) THEN Restarted(bf) ELSE bf
                     more == to > s.total_out
                 IN  /\ Keep(s) /\ goal' = to
                     /\ toskip' = IF more THEN to - s.total_out ELSE 0
                     /\ room' = Chunk(toskip')
                     /\ pc' = IF more THEN "skip" ELSE "open"
                     /\ result' = IF more THEN result ELSE to
                     /\ offset' = IF more THEN offset ELSE to
    BY DEF Seek
  <1> DEFINE wanted == IF cur THEN offset + pos ELSE pos
  <1>0. /\ pos \in Int /\ offset \in Int /\ calls \in 0 .. MaxCalls /\ MaxCalls \in Nat
        /\ at \in Int /\ goal \in Int /\ result \in Int /\ room \in Nat /\ toskip \in Nat
        /\ place \in Places
    BY BoundsAssumption DEF IInv, TypeOK
  <1>3. wanted >= 0 /\ wanted \in Int
    BY <1>0, <1>2
  <1>4. call' = [op |-> "seek", from |-> offset, asked |-> wanted]
    BY <1>2
  <1>w. wanted = IF cur THEN offset + pos ELSE pos
    OBVIOUS
  <1> HIDE DEF wanted
  <1>5. /\ call' \in [op : {"none", "read", "seek"}, from : Int, asked : Int]
        /\ call'.op = "seek" /\ call'.asked = wanted
    BY <1>0, <1>3, <1>4
  <1>f. file' = file /\ Size' = Size
    BY <1>1 DEF file, Size
  <1>6. CASE ~Found
    <2>1. result' = -1 /\ offset' = -1 /\ UNCHANGED <<booter_files, at, pc, room, toskip, goal>>
      BY <1>2, <1>6
    <2>2. TypeOK'
      BY <1>0, <1>1, <1>5, <2>1 DEF IInv, TypeOK, fdVars
    <2>3. Slots'
      BY <1>1, <2>1, SlotsKept DEF IInv
    <2>4. Found' = Found
      BY <1>1, <2>1, Unmoved DEF fdVars
    <2>5. Opened' /\ Starting' /\ Attached'
      BY <1>1, <1>6, <2>1, <2>4 DEF IInv, Opened, Starting, Attached, Working, fdVars
    <2> QED
      BY <2>2, <2>3, <2>5 DEF IInv
  <1>7. CASE Found
    <2>1. /\ bf \in Slot /\ bf.fd = fd /\ Bounded(bf) /\ bf.pos = at
          /\ Plain(bf) => bf.transparent /\ bf.z_err = "Z_OK"
          /\ Own(bf) => File[file].gz
          /\ Plain(bf) => PlainAt(bf)
          /\ Own(bf) => OwnAt(bf)
      BY <1>1, <1>7, InUse DEF IInv, Attached, Working
    <2>2. /\ bf.ahead \in Seq(UnitType) /\ Len(bf.ahead) \in Nat /\ bf.total_out \in Nat
          /\ bf.transparent \in BOOLEAN
      BY <2>1, FieldTypes
    <2>3. CASE bf.transparent
      <3> DEFINE new == IF cur THEN at + pos - Len(bf.ahead) ELSE pos
                 t == [bf EXCEPT !.ahead = <<>>, !.pos = new]
      <3>1. Keep(t) /\ result' = new /\ offset' = new /\ UNCHANGED <<pc, room, toskip, goal>>
        BY <1>2, <1>7, <2>3
      <3>2. new \in Int
        BY <1>0, <2>2
      <3>n. new = IF cur THEN at + pos - Len(bf.ahead) ELSE pos
        OBVIOUS
      <3>t. t = [bf EXCEPT !.ahead = <<>>, !.pos = new]
        OBVIOUS
      <3> HIDE DEF new, t
      <3>3. /\ t \in Slot /\ t.ahead = <<>> /\ t.pos = new /\ t.fd = bf.fd
            /\ t.boot = bf.boot /\ t.gz = bf.gz /\ t.ended = bf.ended /\ t.consumed = bf.consumed
            /\ t.total_out = bf.total_out /\ t.transparent = bf.transparent
            /\ t.z_err = bf.z_err
        <4> DEFINE q == [bf EXCEPT !.ahead = <<>>]
        <4>1. <<>> \in Seq(UnitType)
          OBVIOUS
        <4>q. q = [bf EXCEPT !.ahead = <<>>]
          OBVIOUS
        <4>t. t = [q EXCEPT !.pos = new]
          BY <2>1, <3>t DEF Slot
        <4> HIDE DEF q
        <4>2. q \in Slot
          BY <2>1, <4>1, <4>q DEF Slot
        <4>3. /\ q.ahead = <<>> /\ q.fd = bf.fd
              /\ q.boot = bf.boot /\ q.gz = bf.gz /\ q.ended = bf.ended /\ q.consumed = bf.consumed
              /\ q.total_out = bf.total_out /\ q.transparent = bf.transparent /\ q.z_err = bf.z_err
          BY <2>1, <4>q DEF Slot
        <4>4. t \in Slot /\ t.pos = new
          BY <3>2, <4>2, <4>t DEF Slot
        <4>5. /\ t.ahead = q.ahead /\ t.fd = q.fd
              /\ t.boot = q.boot /\ t.gz = q.gz /\ t.ended = q.ended /\ t.consumed = q.consumed
              /\ t.total_out = q.total_out /\ t.transparent = q.transparent /\ t.z_err = q.z_err
          BY <4>2, <4>t DEF Slot
        <4> QED
          BY <4>3, <4>4, <4>5
      <3>4. /\ booter_files' \in Seq(Slot) /\ Len(booter_files') = Len(booter_files)
            /\ at' \in Int /\ Found' /\ bf' = t
            /\ \A i \in DOMAIN booter_files' :
                  booter_files'[i] = IF i = lookup_bf THEN t ELSE booter_files[i]
        <4>1. t.fd = fd /\ fd' = fd
          BY <1>1, <2>1, <3>3 DEF fdVars
        <4> QED
          BY <1>7, <3>1, <3>3, <4>1, KeepIs DEF IInv, TypeOK
      <3>5. TypeOK'
        BY <1>0, <1>1, <1>5, <3>1, <3>2, <3>4 DEF IInv, TypeOK, fdVars
      <3>6. Slots'
        <4>1. DOMAIN booter_files' = DOMAIN booter_files
          BY <3>4 DEF IInv, TypeOK
        <4>2. Bounded(t) /\ (Plain(t) => t.transparent /\ t.z_err = "Z_OK")
          BY <2>1, <3>3 DEF Bounded, Plain
        <4> QED
          BY <1>1, <1>7, <3>1, <3>3, <3>4, <4>1, <4>2, SlotsSet DEF IInv
      <3>7. ~Own(bf)'
        <4>1. ASSUME Own(bf)' PROVE FALSE
          <5>1. OwnAt(bf)
            BY <1>1, <2>1, <3>3, <3>4, <4>1 DEF Own
          <5> QED
            BY <2>3, <5>1 DEF OwnAt, Coding, Finished
        <4> QED
          BY <4>1
      <3>8. ASSUME Plain(bf)' PROVE PlainAt(bf)'
        <4>1. PlainAt(bf)
          BY <2>1, <3>3, <3>4, <3>8 DEF Plain
        <4>2. new = wanted
          <5>1. CASE cur
            <6>1. at = offset /\ Len(bf.ahead) = 0
              BY <1>2, <2>1, <4>1, <5>1 DEF PlainAt
            <6> QED
              BY <1>0, <1>w, <3>n, <5>1, <6>1
          <5>2. CASE ~cur
            BY <1>w, <3>n, <5>2
          <5> QED
            BY <5>1, <5>2
        <4>3. ReadAnswer' /\ SeekAnswer'
          BY <1>5, <3>1, <4>2 DEF ReadAnswer, SeekAnswer
        <4> QED
          BY <1>1, <1>3, <3>1, <3>3, <3>4, <4>2, <4>3 DEF PlainAt
      <3>9. Opened' /\ Starting'
        BY <1>1, <3>1 DEF IInv, Opened, Starting, fdVars
      <3> QED
        BY <3>5, <3>6, <3>7, <3>8, <3>9 DEF IInv, Attached
    <2>4. CASE ~bf.transparent
      <3> DEFINE to == IF cur THEN pos + bf.total_out ELSE pos
                 s  == IF Backward(to, bf) THEN Restarted(bf) ELSE bf
                 more == to > s.total_out
                 left == IF more THEN to - s.total_out ELSE 0
      <3>1. /\ Keep(s) /\ goal' = to /\ toskip' = left /\ room' = Chunk(left)
            /\ pc' = IF more THEN "skip" ELSE "open"
            /\ result' = IF more THEN result ELSE to
            /\ offset' = IF more THEN offset ELSE to
        BY <1>2, <1>7, <2>4
      <3>2. to \in Int
        BY <1>0, <2>2
      <3>o. to = IF cur THEN pos + bf.total_out ELSE pos
        OBVIOUS
      <3>s. s = IF to < bf.total_out THEN Restarted(bf) ELSE bf
        BY DEF Backward
      <3> HIDE DEF to, s
      <3>3. /\ s \in Slot /\ s.fd = bf.fd /\ s.boot = bf.boot /\ s.gz = bf.gz
            /\ s.ended = bf.ended /\ Bounded(s)
            /\ to < bf.total_out => s.total_out = 0
            /\ to >= bf.total_out => s = bf
        <4>1. CASE to < bf.total_out
          <5>1. s = Restarted(bf)
            BY <3>s, <4>1
          <5>2. /\ s \in Slot /\ s.fd = bf.fd /\ s.boot = bf.boot /\ s.gz = bf.gz
                /\ s.ended = bf.ended /\ s.consumed = 0 /\ s.total_out = 0
            BY <1>0, <2>1, <5>1, RestartedIs
          <5>3. Bounded(s)
            BY <5>2, SizesAssumption DEF Bounded
          <5> QED
            BY <2>2, <3>2, <4>1, <5>2, <5>3
        <4>2. CASE ~(to < bf.total_out)
          <5>1. s = bf
            BY <3>s, <4>2
          <5> QED
            BY <2>1, <4>2, <5>1
        <4> QED
          BY <4>1, <4>2
      <3>4. s.total_out \in Nat /\ left \in Nat
        BY <3>2, <3>3, FieldTypes
      <3>m. left > 0 <=> more
        BY <3>2, <3>4
      <3>l. left = IF more THEN to - s.total_out ELSE 0
        OBVIOUS
      <3>r. more <=> to > s.total_out
        OBVIOUS
      <3> HIDE DEF more, left
      <3>5. room' \in Nat /\ room' <= DUMMYBUFSIZE /\ (left > 0 => room' > 0)
        BY <3>1, <3>4, ChunkIs
      <3>6. /\ booter_files' \in Seq(Slot) /\ Len(booter_files') = Len(booter_files)
            /\ at' \in Int /\ Found' /\ bf' = s
            /\ \A i \in DOMAIN booter_files' :
                  booter_files'[i] = IF i = lookup_bf THEN s ELSE booter_files[i]
        <4>1. s.fd = fd /\ fd' = fd
          BY <1>1, <2>1, <3>3 DEF fdVars
        <4> QED
          BY <1>7, <3>1, <3>3, <4>1, KeepIs DEF IInv, TypeOK
      <3>7. TypeOK'
        <4>1. /\ pc' \in {"open", "skip"} /\ goal' \in Int /\ result' \in Int /\ offset' \in Int
              /\ toskip' \in Nat
          BY <1>0, <3>1, <3>2, <3>4
        <4> QED
          BY <1>0, <1>1, <1>5, <3>5, <3>6, <4>1 DEF IInv, TypeOK, fdVars
      <3>8. ~Plain(s)
        BY <2>1, <2>4, <3>3 DEF Plain
      <3>9. Slots'
        <4>1. DOMAIN booter_files' = DOMAIN booter_files
          BY <3>6 DEF IInv, TypeOK
        <4>2. pc' # "header"
          BY <3>1
        <4> QED
          BY <1>1, <1>7, <3>3, <3>6, <3>8, <4>1, <4>2, SlotsSet DEF IInv
      <3>10. ~Plain(bf)'
        BY <3>6, <3>8 DEF Plain
      <3>11. ASSUME Own(bf)' PROVE OwnAt(bf)'
        <4>1. OwnAt(bf) /\ File[file].gz /\ Own(bf)
          BY <1>1, <2>1, <3>3, <3>6, <3>11 DEF Own
        <4>2. to = wanted
          <5>1. cur => bf.total_out = offset
            BY <1>1, <1>2, <4>1 DEF OwnAt
          <5>2. cur => pos + offset = offset + pos
            BY <1>0
          <5> QED
            BY <1>w, <3>o, <5>1, <5>2
        <4>3. Coding(s) \/ Finished(s)
          <5>1. CASE to < bf.total_out
            <6>1. s = Restarted(bf)
              BY <3>s, <5>1
            <6>2. /\ s.inbuf = bf.inbuf /\ s.live = TRUE /\ s.consumed = 0 /\ s.total_out = 0
                  /\ ~s.transparent /\ s.z_err = "Z_OK" /\ AheadRight(s) /\ Next1(s) = 3
                  /\ ~s.z_eof /\ ~s.next_null
              BY <1>0, <2>1, <4>1, <6>1, RestartedIs
            <6>3. bf.inbuf
              BY <4>1 DEF OwnAt, Coding, Finished
            <6>4. Codes \in Nat /\ Size \in Nat \ {0}
              BY <1>0, Sizes
            <6> QED
              BY <6>2, <6>3, <6>4 DEF Coding
          <5>2. CASE ~(to < bf.total_out)
            <6>1. s = bf
              BY <3>s, <5>2
            <6> QED
              BY <4>1, <6>1 DEF OwnAt
          <5> QED
            BY <5>1, <5>2
        <4>4. (Coding(bf) \/ Finished(bf))'
          <5>1. PICK c : c = s
            OBVIOUS
          <5> QED
            BY <1>1, <3>6, <4>3, <5>1, StreamKept
        <4>5. Len(got') = 0 /\ got' = <<>>
          BY <1>1
        <4>6. CASE more
          <5>1. pc' = "skip" /\ goal' = to /\ toskip' = left /\ left > 0 /\ room' = Chunk(left)
            BY <3>1, <3>m, <4>6
          <5>2. s.total_out + toskip' = goal' + Len(got')
            <6>1. left = to - s.total_out /\ to \in Int /\ s.total_out \in Int
              BY <3>2, <3>4, <3>l, <4>6
            <6>2. s.total_out + left = to /\ to + 0 = to
              BY <6>1
            <6> QED
              BY <4>5, <5>1, <6>2
          <5>3. room' + Len(got') = Chunk(toskip)'
            <6>1. room' \in Int
              BY <3>5
            <6>2. room' + Len(got') = room'
              BY <4>5, <6>1, AddNone
            <6>3. room' = Chunk(toskip)'
              BY <5>1 DEF Chunk
            <6> QED
              BY <6>2, <6>3
          <5> QED
            BY <1>5, <3>6, <4>2, <4>4, <4>5, <5>1, <5>2, <5>3 DEF OwnAt
        <4>7. CASE ~more
          <5>1. pc' = "open" /\ result' = to /\ offset' = to
            BY <3>1, <4>7
          <5>2. to = s.total_out
            <6>1. CASE to < bf.total_out
              BY <1>3, <3>2, <3>3, <3>r, <4>2, <4>7, <6>1
            <6>2. CASE to >= bf.total_out
              BY <2>2, <3>2, <3>3, <3>r, <4>7, <6>2
            <6> QED
              BY <2>2, <3>2, <6>1, <6>2
          <5>3. ReadAnswer' /\ SeekAnswer'
            BY <1>5, <4>2, <5>1 DEF ReadAnswer, SeekAnswer
          <5> QED
            BY <3>6, <4>4, <5>1, <5>2, <5>3 DEF OwnAt
        <4> QED
          BY <4>6, <4>7
      <3>12. Opened' /\ Starting'
        <4>1. pc' # "header"
          BY <3>1
        <4> QED
          BY <1>1, <4>1 DEF IInv, Opened, Starting, fdVars
      <3> QED
        BY <3>7, <3>9, <3>10, <3>11, <3>12 DEF IInv, Attached
    <2> QED
      BY <2>2, <2>3, <2>4
  <1> QED
    BY <1>6, <1>7

(* A close, of whatever slot has the descriptor, and the end of the boot.  *)
LEMMA LeaveRight ==
    ASSUME IInv, Leave, NEW d, gzboot_close(d) \/ UNCHANGED <<booter_files, inuse>>
    PROVE  IInv'
  <1>1. /\ pc' = "idle" /\ room' = 0 /\ got' = <<>> /\ toskip' = 0 /\ goal' = 0
        /\ result' = 0 /\ call' = NoCall /\ offset' = -1
        /\ UNCHANGED <<place, at, fd, kern_fd, boots, calls, failures>>
    BY DEF Leave
  <1>2. /\ booter_files' \in Seq(Slot) /\ Len(booter_files') = Len(booter_files)
        /\ inuse' \subseteq inuse
        /\ \A i \in DOMAIN booter_files' :
             /\ booter_files'[i].consumed = booter_files[i].consumed
             /\ booter_files'[i].total_out = booter_files[i].total_out
             /\ booter_files'[i].boot = booter_files[i].boot
             /\ booter_files'[i].gz = booter_files[i].gz
             /\ booter_files'[i].transparent = booter_files[i].transparent
             /\ booter_files'[i].z_err = booter_files[i].z_err
    <2>1. CASE gzboot_close(d)
      BY <2>1, CloseIs DEF IInv
    <2>2. CASE UNCHANGED <<booter_files, inuse>>
      BY <2>2 DEF IInv, TypeOK
    <2> QED
      BY <2>1, <2>2
  <1>3. TypeOK'
    <2>1. /\ Len(booter_files') <= MAX_BOOTER_FILES
          /\ inuse' \subseteq 0 .. MaxBoots \cup {kFooFileID}
      BY <1>2 DEF IInv, TypeOK
    <2>2. call' \in [op : {"none", "read", "seek"}, from : Int, asked : Int]
      BY <1>1 DEF NoCall
    <2>3. got' \in Seq(UnitType)
      BY <1>1
    <2>4. {room', toskip'} \subseteq Nat /\ {goal', result', offset'} \subseteq Int
      BY <1>1
    <2> QED
      BY <1>1, <1>2, <2>1, <2>2, <2>3, <2>4 DEF IInv, TypeOK
  <1>4. Opened'
    <2>1. IsFiniteSet(inuse') /\ Cardinality(inuse') <= Cardinality(inuse)
      BY <1>2, FS_Subset DEF IInv, Opened
    <2>2. Cardinality(inuse') \in Nat /\ Cardinality(inuse) \in Nat
      BY <2>1, FS_CardinalityType DEF IInv, Opened
    <2>3. boots \in Nat /\ boots' = boots
      BY <1>1, BoundsAssumption DEF IInv, TypeOK
    <2> QED
      BY <2>1, <2>2, <2>3 DEF IInv, Opened
  <1>5. Slots'
    <2> SUFFICES ASSUME NEW i \in DOMAIN booter_files' PROVE SlotRight(booter_files[i])'
      BY DEF Slots
    <2>1. i \in DOMAIN booter_files
      BY <1>2 DEF IInv, TypeOK
    <2>2. SlotRight(booter_files[i])
      BY <2>1 DEF IInv, Slots
    <2> QED
      BY <1>1, <1>2, <2>2 DEF SlotRight, Bounded
  <1>6. Starting' /\ Attached'
    BY <1>1 DEF Starting, Attached, Working
  <1> QED
    BY <1>3, <1>4, <1>5, <1>6 DEF IInv

LEMMA StillRight == IInv /\ UNCHANGED vars => IInv'
  <1> SUFFICES ASSUME IInv, UNCHANGED vars PROVE IInv'
    OBVIOUS
  <1>1. /\ UNCHANGED <<booter_files, place, at, fd, kern_fd, inuse>>
        /\ UNCHANGED <<pc, room, got, toskip, goal, result, boots, calls, failures, call, offset>>
    BY DEF vars
  <1>2. TypeOK' /\ Opened'
    BY <1>1 DEF IInv, TypeOK, Opened
  <1>f. file' = file
    BY <1>1 DEF file
  <1>3. Slots'
    BY <1>1, <1>f DEF IInv, Slots, SlotRight, Bounded
  <1>4. Starting'
    BY <1>1 DEF IInv, Starting, Fresh
  <1>5. Found' = Found /\ bf' = bf
    BY <1>1, Unmoved
  <1>6. Attached'
    <2>1. Working' = Working
      BY <1>1, <1>5 DEF Working
    <2>2. CASE Working
      <3>1. ASSUME Plain(bf)' PROVE PlainAt(bf)'
        <4>1. PlainAt(bf)
          BY <1>5, <2>2, <3>1 DEF IInv, Attached, Plain
        <4> QED
          BY <1>1, <1>5, <1>f, <4>1 DEF PlainAt, ReadAnswer, SeekAnswer, Asked, Size, Chunk
      <3>2. ASSUME Own(bf)' PROVE OwnAt(bf)'
        <4>1. OwnAt(bf)
          BY <1>1, <1>5, <2>2, <3>2 DEF IInv, Attached, Own
        <4>2. (Coding(bf) \/ Finished(bf))'
          <5>1. PICK c : c = bf
            OBVIOUS
          <5> QED
            BY <1>1, <1>5, <4>1, <5>1, StreamKept DEF OwnAt
        <4>3. (ReadAnswer' <=> ReadAnswer) /\ (SeekAnswer' <=> SeekAnswer) /\ (Asked' <=> Asked)
          BY <1>1, <1>f DEF ReadAnswer, SeekAnswer, Asked, Size
        <4>4. Chunk(toskip)' = Chunk(toskip)
          BY <1>1 DEF Chunk
        <4>5. Delivers(got, offset)' <=> Delivers(got, offset)
          BY <1>1, <1>f DEF Delivers
        <4> QED
          BY <1>1, <1>5, <4>1, <4>2, <4>3, <4>4, <4>5 DEF OwnAt
      <3> QED
        BY <3>1, <3>2 DEF Attached
    <2>3. CASE ~Working
      BY <2>1, <2>3 DEF Attached
    <2> QED
      BY <2>2, <2>3
  <1> QED
    BY <1>2, <1>3, <1>4, <1>6 DEF IInv

LEMMA NextRight == IInv /\ [Next]_vars => IInv'
  <1> SUFFICES ASSUME IInv, [Next]_vars PROVE IInv'
    OBVIOUS
  <1>1. CASE Open
    BY <1>1, OpenRight
  <1>2. CASE CheckHeader
    BY <1>2, CheckHeaderRight
  <1>3. CASE StartRead
    BY <1>3, StartReadRight
  <1>4. CASE ReadRefused
    BY <1>4, ReadRefusedRight
  <1>5. CASE ReadTransparent
    BY <1>5, ReadTransparentRight
  <1>6. CASE ReadCompressed
    BY <1>6, ReadCompressedRight
  <1>7. CASE Seek
    BY <1>7, SeekAll
  <1>8. CASE StopBoot
    <2>1. gzboot_close(kern_fd) /\ Leave
      BY <1>8 DEF StopBoot
    <2> QED
      BY <2>1, LeaveRight
  <1>9. CASE EndBoot
    <2>1. Leave /\ (gzboot_close(kern_fd) \/ UNCHANGED <<booter_files, inuse>>)
      BY <1>9 DEF EndBoot
    <2> QED
      BY <2>1, LeaveRight
  <1>10. CASE UNCHANGED vars
    BY <1>10, StillRight
  <1> QED
    BY <1>1, <1>2, <1>3, <1>4, <1>5, <1>6, <1>7, <1>8, <1>9, <1>10 DEF Next, Done

LEMMA Inductive == Spec => []IInv
  BY InitRight, NextRight, PTL DEF Spec
-----------------------------------------------------------------------------
(* What it gives of the loader's slot between two calls.                   *)

LEMMA SoundIs ==
    ASSUME IInv, Sound
    PROVE  /\ pc = "open" /\ bf \in Slot /\ offset \in Int
           /\ Plain(bf) \/ Own(bf)
           /\ Plain(bf) => bf.transparent /\ PlainAt(bf) /\ ~File[file].gz
           /\ Own(bf) => ~bf.transparent /\ OwnAt(bf)
  <1>1. /\ pc = "open" /\ Found /\ ~bf.ended
        /\ bf.boot = boots \/ (bf.boot > 0 /\ ~bf.gz /\ ~File[file].gz)
    BY DEF Sound
  <1>2. /\ bf \in Slot /\ (Plain(bf) => bf.transparent)
    BY <1>1, InUse DEF IInv
  <1>3. (Plain(bf) => PlainAt(bf)) /\ (Own(bf) => OwnAt(bf))
    BY <1>1 DEF IInv, Attached, Working
  <1>4. Plain(bf) \/ Own(bf)
    BY <1>1, <1>2, FieldTypes DEF IInv, Starting, TypeOK, Plain, Own
  <1>6. Plain(bf) => ~File[file].gz
    <2>1. /\ lookup_bf \in 1 .. Len(booter_files)
          /\ bf.boot = booter_files[lookup_bf].boot /\ bf.gz = booter_files[lookup_bf].gz
      BY <1>1, LookupIs DEF IInv, TypeOK
    <2>2. SlotRight(booter_files[lookup_bf])
      BY <2>1 DEF IInv, Slots, TypeOK
    <2> QED
      BY <1>1, <2>1, <2>2 DEF SlotRight, Plain
  <1>5. Own(bf) => ~bf.transparent
    BY <1>3 DEF OwnAt, Coding, Finished
  <1> QED
    BY <1>1, <1>2, <1>3, <1>4, <1>5, <1>6 DEF IInv, TypeOK

LEMMA ReadRightKept == IInv => ReadRight
  <1> SUFFICES ASSUME IInv, Sound, call.op = "read" PROVE ReadAnswer
    BY DEF ReadRight, ReadAnswer
  <1> QED
    BY SoundIs DEF PlainAt, OwnAt

LEMMA SeekRightKept == IInv => SeekRight
  <1> SUFFICES ASSUME IInv, Sound PROVE SeekAnswer
    BY DEF SeekRight, SeekAnswer
  <1> QED
    BY SoundIs DEF PlainAt, OwnAt

LEMMA PositionRightKept == IInv => PositionRight
  <1> SUFFICES ASSUME IInv, Sound, offset # -1
               PROVE  IF bf.transparent THEN at - Len(bf.ahead) = offset
                      ELSE bf.total_out = offset
    BY DEF PositionRight
  <1>1. CASE Plain(bf)
    <2>0. bf.pos = at
      BY SoundIs, InUse DEF IInv, Sound
    <2>1. bf.transparent /\ at = offset /\ Len(bf.ahead) = 0 /\ offset \in Int
      BY <1>1, <2>0, SoundIs DEF PlainAt
    <2> QED
      BY <2>1
  <1>2. CASE Own(bf)
    BY <1>2, SoundIs DEF OwnAt
  <1> QED
    BY <1>1, <1>2, SoundIs
-----------------------------------------------------------------------------
(* A gzboot_read of gzip.c gives the kernel's bytes from where the loader  *)
(* is, and as many as it asked for if there are as many: for every kernel, *)
(* size of the buffers and sequence of reads, seeks, stops and boots.      *)
THEOREM ReadRightCorrect == Spec => []ReadRight
  BY Inductive, ReadRightKept, PTL

(* A gzboot_lseek within the kernel gets to the position asked for, also   *)
(* when it restarts the stream, to skip from the beginning.                *)
THEOREM SeekRightCorrect == Spec => []SeekRight
  BY Inductive, SeekRightKept, PTL

(* After every call, gzip.c is in the kernel where the loader takes it to  *)
(* be: the back end less what is read ahead, or the output of inflate.     *)
THEOREM PositionRightCorrect == Spec => []PositionRight
  BY Inductive, PositionRightKept, PTL
=============================================================================
