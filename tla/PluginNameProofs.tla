-------------------------- MODULE PluginNameProofs --------------------------
(***************************************************************************)
(* PluginName for any number of Loads, any names and any width of the C    *)
(* int: no copy and no read leaves a Load's buffer (WordInv); doubled      *)
(* sizes skip the values a name out of reach could fit (DoubledInv), so a  *)
(* Load that asks for one is stuck, and until one is no capacity leaves    *)
(* the C int and every name is exact (ReachInv).                           *)
(***************************************************************************)
EXTENDS PluginName, TLAPS

\* Division with remainder.
LEMMA Division ==
  ASSUME NEW w \in Nat, w > 0, NEW c \in Nat
  PROVE  /\ c = w * (c \div w) + (c % w)
         /\ c \div w \in Nat /\ c % w \in 0 .. w - 1
OBVIOUS

\* There is but one remainder.
LEMMA RemainderIs ==
  ASSUME NEW w \in Nat, w > 0, NEW q \in Int, NEW r \in 0 .. w - 1,
         NEW c \in Nat, c = w * q + r
  PROVE  c % w = r
OBVIOUS

\* The remainder of a number moved up by less than the divisor.
LEMMA RemainderMoved ==
  ASSUME NEW w \in Nat, w > 0, NEW c \in Nat, NEW m \in Nat, m < w
  PROVE  (c + m) % w = IF (c % w) + m < w THEN (c % w) + m ELSE (c % w) + m - w
<1> DEFINE q == c \div w
           p == q + 1
           r == c % w
<1>1. c = w * q + r /\ q \in Nat /\ r \in 0 .. w - 1
  BY Division
<1>2. w * p = w * q + w /\ p \in Nat
  BY <1>1
<1> HIDE DEF q, p, r
<1>3. CASE r + m < w
  <2>1. c + m = w * q + (r + m) /\ r + m \in 0 .. w - 1 /\ c + m \in Nat
    BY <1>1, <1>3
  <2>2. (c + m) % w = r + m
    BY <1>1, <2>1, RemainderIs
  <2> QED
    BY <1>1, <1>3, <2>2 DEF r
<1>4. CASE r + m >= w
  <2>1. c + m = w * p + (r + m - w) /\ r + m - w \in 0 .. w - 1 /\ c + m \in Nat
    BY <1>1, <1>2, <1>4
  <2>2. (c + m) % w = r + m - w
    BY <1>2, <2>1, RemainderIs
  <2> QED
    BY <1>1, <1>4, <2>2 DEF r
<1> QED
  BY <1>1, <1>3, <1>4

LEMMA RemainderDoubled ==
  ASSUME NEW w \in Nat, w > 0, NEW c \in Nat, c % w = 0
  PROVE  (2 * c) % w = 0
<1> DEFINE q == c \div w
<1>1. c = w * q /\ q \in Nat
  BY Division
<1> HIDE DEF q
<1>2. 2 * c = w * (2 * q) + 0
  BY <1>1
<1> QED
  BY <1>1, <1>2, RemainderIs

\* The plugin never reads more than the capacity.
LEMMA AsCIntBelow ==
  ASSUME NEW n \in Nat
  PROVE  /\ AsCInt(n) \in Int /\ AsCInt(n) <= n
         /\ n <= CIntMax => AsCInt(n) = n
<1>1. CIntMax \in Nat
  BY CIntAssumption
<1>2. CASE n <= CIntMax
  BY <1>2 DEF AsCInt
<1>3. CASE n > CIntMax
  <2> DEFINE m == 2 * (CIntMax + 1)
             r == (n + CIntMax + 1) % m
  <2>1. m \in Nat /\ m > 0 /\ n + CIntMax + 1 \in Nat
    BY <1>1
  <2> HIDE DEF m
  <2>2. r \in 0 .. m - 1
    BY <2>1
  <2> HIDE DEF r
  <2>3. AsCInt(n) = r - (CIntMax + 1)
    BY <1>1, <1>3 DEF AsCInt, r, m
  <2>4. r <= 2 * CIntMax + 1 /\ r \in Int
    BY <1>1, <2>2 DEF m
  <2> QED
    BY <1>1, <1>3, <2>3, <2>4
<1> QED
  BY <1>1, <1>2, <1>3

\* What is left in the word: what the plugin wrote over its low half, no more
\* than the word was when what it wrote fits.
LEMMA WrittenBelow ==
  ASSUME NEW c \in Nat, NEW n \in Nat
  PROVE  /\ Written(c, n) \in Nat
         /\ n <= AsCInt(c) => Written(c, n) <= c
         /\ c <= CIntMax => Written(c, n) = n
<1>1. CIntMax \in Nat
  BY CIntAssumption
<1> DEFINE m == CIntMax + 1
           w == 2 * m
           l == c % w
<1>2. m \in Nat /\ w \in Nat /\ w > 0 /\ m < w
  BY <1>1
<1>3. m = CIntMax + 1 /\ w = 2 * m
  OBVIOUS
<1>4. Written(c, n) = c - l + n
  BY DEF Written
<1>5. c > CIntMax => AsCInt(c) = ((c + m) % w) - m
  BY <1>1 DEF AsCInt
<1> HIDE DEF w, m
<1>6. (c + m) % w = IF (c % w) + m < w THEN (c % w) + m ELSE (c % w) + m - w
  BY <1>2, RemainderMoved
<1>7. l \in 0 .. w - 1 /\ l <= c /\ (c <= CIntMax => l = c)
  BY <1>1, <1>2, <1>3
<1>8. (c + m) % w = IF l + m < w THEN l + m ELSE l + m - w
  BY <1>6
<1> HIDE DEF l
<1>9. AsCInt(c) <= l
  BY <1>1, <1>2, <1>3, <1>5, <1>7, <1>8, AsCIntBelow
<1> QED
  BY <1>4, <1>7, <1>9, AsCIntBelow

\* A size that is not below 2^31 wraps to nothing a name fits.
LEMMA DoubledWraps ==
  ASSUME NEW S, Below(S), NEW c \in Nat, Doubled(S, c), c > CIntMax
  PROVE  AsCInt(c) <= 0
<1> DEFINE m == CIntMax + 1
           w == 2 * m
<1>1. CIntMax \in Nat /\ m \in Nat /\ m > 0 /\ w \in Nat /\ w > 0 /\ m < w
  BY CIntAssumption
<1>2. AsCInt(c) = ((c + m) % w) - m
  BY <1>1 DEF AsCInt
<1>3. CASE c \in S
  <2>1. c = m
    BY <1>1, <1>3 DEF Below
  <2>2. c + m = w * 1 + 0 /\ c + m \in Nat
    BY <1>1, <2>1
  <2> HIDE DEF w, m
  <2>3. (c + m) % w = 0
    BY <1>1, <2>2, RemainderIs
  <2> QED
    BY <1>1, <1>2, <2>3
<1>4. CASE c % w = 0
  <2> HIDE DEF w, m
  <2>1. (c + m) % w = IF (c % w) + m < w THEN (c % w) + m ELSE (c % w) + m - w
    BY <1>1, RemainderMoved
  <2>2. (c + m) % w = m
    BY <1>1, <1>4, <2>1
  <2> QED
    BY <1>1, <1>2, <2>2
<1> QED
  BY <1>3, <1>4 DEF Doubled

\* A name out of reach is longer than every capacity below 2^31.
LEMMA OutOfReachNeverFits ==
  ASSUME NEW S, Below(S), NEW c \in Nat, Doubled(S, c), c >= 1,
         NEW n \in Nat, ~InReach(n)
  PROVE  ~(n <= AsCInt(c))
<1>1. CIntMax \in Nat
  BY CIntAssumption
<1>2. n >= 1
  BY <1>1 DEF InReach
<1>3. CASE c > CIntMax
  BY <1>1, <1>2, <1>3, DoubledWraps, AsCIntBelow
<1>4. CASE c <= CIntMax
  <2> DEFINE w == 2 * (CIntMax + 1)
  <2>1. c \in S
    <3>1. w \in Nat /\ w > 0 /\ c = w * 0 + c /\ c \in 0 .. w - 1
      BY <1>1, <1>4
    <3> HIDE DEF w
    <3>2. c % w = c
      BY <3>1, RemainderIs
    <3> QED
      BY <3>2 DEF Doubled, w
  <2>2. 2 * c <= CIntMax + 1
    BY <1>1, <1>4, <2>1 DEF Below
  <2>3. c < n
    BY <1>1, <2>2 DEF InReach
  <2> QED
    BY <1>1, <2>3, AsCIntBelow
<1> QED
  BY <1>1, <1>3, <1>4

LEMMA DoubledTwice ==
  ASSUME NEW S, Below(S), NEW c \in Nat, Doubled(S, c)
  PROVE  Doubled(S, 2 * c)
<1> DEFINE w == 2 * (CIntMax + 1)
<1>1. CIntMax \in Nat /\ w \in Nat /\ w > 0
  BY CIntAssumption
<1>2. CASE c \in S /\ c # CIntMax + 1
  BY <1>2 DEF Below, Doubled
<1>3. CASE c = CIntMax + 1
  <2>1. 2 * c = w * 1 + 0 /\ 2 * c \in Nat
    BY <1>1, <1>3
  <2> HIDE DEF w
  <2>2. (2 * c) % w = 0
    BY <1>1, <2>1, RemainderIs
  <2> QED
    BY <2>2 DEF Doubled, w
<1>4. CASE c % w = 0
  <2> HIDE DEF w
  <2>1. (2 * c) % w = 0
    BY <1>1, <1>4, RemainderDoubled
  <2> QED
    BY <2>1 DEF Doubled, w
<1> QED
  BY <1>2, <1>3, <1>4 DEF Doubled

\* Every Load but one keeps its part.
LEMMA OthersKeep ==
  ASSUME TypeOK, NEW u \in Loaders, AskName(u) \/ Advance(u), NEW v \in Loaders \ {u}
  PROVE  /\ pc'[v] = pc[v] /\ nameLen'[v] = nameLen[v]
         /\ nameBuffer'[v] = nameBuffer[v] /\ name'[v] = name[v]
BY DEF TypeOK, AskName, Advance, GetBuffer, GetName, Glow, MakeBuffer, Rebuild, Goes, Allocate

LEMMA Bounds ==
  /\ CIntMax \in Nat /\ MaxAlloc \in Nat /\ CIntMax <= MaxAlloc
  /\ Lens \subseteq Nat /\ SmallInit \in Nat /\ SmallInit >= 1 /\ SmallInit <= CIntMax
BY CIntAssumption, NameAssumption

\* A buffer that is made.
LEMMA AllocateMakes ==
  ASSUME TypeOK, NEW u \in Loaders, NEW from, NEW n \in Nat, Allocate(u, from, n)
  PROVE  \/ n > MaxAlloc /\ halted' = TRUE /\ UNCHANGED <<pc, nameBuffer>>
         \/ /\ n <= MaxAlloc /\ UNCHANGED halted
            /\ pc' = [pc EXCEPT ![u] = "getName"] /\ pc'[u] = "getName"
            /\ nameBuffer' \in [Loaders -> Buffers]
            /\ nameBuffer'[u].cap = n /\ nameBuffer'[u].len = n
<1>1. CASE n <= MaxAlloc
  <2>1. BufferOf(n) \in Buffers /\ BufferOf(n).cap = n /\ BufferOf(n).len = n
    BY <1>1, Bounds DEF Buffers, BufferOf
  <2>2. /\ pc' = [pc EXCEPT ![u] = "getName"] /\ UNCHANGED halted
        /\ nameBuffer' = [nameBuffer EXCEPT ![u] = BufferOf(n)]
    BY <1>1, Bounds DEF Allocate, Goes
  <2>3. nameBuffer' \in [Loaders -> Buffers]
    BY <2>1, <2>2 DEF TypeOK
  <2>4. nameBuffer'[u] = BufferOf(n)
    BY <2>2 DEF TypeOK
  <2>5. pc'[u] = "getName"
    BY <2>2 DEF TypeOK
  <2> QED
    BY <1>1, <2>1, <2>2, <2>3, <2>4, <2>5
<1>2. CASE n > MaxAlloc
  BY <1>2, Bounds DEF Allocate
<1>3. n <= MaxAlloc \/ n > MaxAlloc
  BY Bounds
<1> QED
  BY <1>1, <1>2, <1>3

LEMMA WordInit == Init => WordInv
<1> SUFFICES ASSUME Init PROVE WordInv
  OBVIOUS
<1>1. BufferOf(0) \in Buffers
  BY Bounds DEF Buffers, BufferOf
<1>2. size \in 1 .. 2 * MaxAlloc /\ 0 \in 0 .. MaxAlloc
  BY Bounds DEF Init
<1>3. TypeOK
  BY <1>1, <1>2 DEF Init, TypeOK, Steps
<1> QED
  BY <1>3 DEF Init, WordInv, WordOf

\* What a buffer holds.
LEMMA BufferFields ==
  ASSUME TypeOK, NEW u \in Loaders
  PROVE  /\ nameBuffer[u].cap \in 0 .. MaxAlloc /\ nameBuffer[u].len \in 0 .. MaxAlloc
         /\ nameBuffer[u].cap \in Nat /\ nameLen[u] \in Nat /\ size \in Nat /\ size >= 1
<1>1. nameBuffer[u] \in Buffers
  BY DEF TypeOK
<1>2. nameBuffer[u].cap \in 0 .. MaxAlloc /\ nameBuffer[u].len \in 0 .. MaxAlloc
  BY <1>1 DEF Buffers
<1>3. nameLen[u] \in Nat
  <2>1. nameLen[u] \in Lens \cup {0}
    BY DEF TypeOK
  <2>2. Lens \cup {0} \subseteq Nat
    BY NameAssumption
  <2> QED
    BY <2>1, <2>2
<1>4. size \in Nat /\ size >= 1
  BY Bounds DEF TypeOK
<1> QED
  BY <1>2, <1>3, <1>4, Bounds

LEMMA AllocateKeeps ==
  ASSUME WordInv, NEW u \in Loaders, NEW from, NEW n \in Nat, n >= 1, Allocate(u, from, n),
         UNCHANGED <<size, nameLen, name>>
  PROVE  TypeOK' /\ WordOf(u)'
<1> USE DEF WordInv
<1>1. CASE n > MaxAlloc /\ halted' = TRUE /\ UNCHANGED <<pc, nameBuffer>>
  BY <1>1 DEF TypeOK, WordOf
<1>2. CASE /\ UNCHANGED halted
           /\ pc' = [pc EXCEPT ![u] = "getName"] /\ pc'[u] = "getName"
           /\ nameBuffer' \in [Loaders -> Buffers]
           /\ nameBuffer'[u].cap = n /\ nameBuffer'[u].len = n
  BY <1>2 DEF TypeOK, WordOf, Steps
<1> QED
  BY <1>1, <1>2, AllocateMakes

\* A step of one Load, as far as the word goes.
LEMMA WordOfMover ==
  ASSUME WordInv, NEW u \in Loaders, AskName(u) \/ Advance(u)
  PROVE  TypeOK' /\ WordOf(u)'
<1> USE DEF WordInv
<1> DEFINE b == nameBuffer[u]
<1>1. /\ b.cap \in Nat /\ b.cap <= MaxAlloc /\ nameLen[u] \in Nat
      /\ size \in Nat /\ size >= 1 /\ 2 * b.cap \in Nat
  BY BufferFields, Bounds
<1>2. CASE AskName(u)
  <2>1. 0 \in 0 .. MaxAlloc
    BY Bounds
  <2> QED
    BY <1>2, <2>1 DEF AskName, Goes, TypeOK, WordOf, Steps
<1>3. CASE GetBuffer(u)
  <2>1. Allocate(u, "getBuffer", size) /\ UNCHANGED <<size, nameLen, name>>
    BY <1>3 DEF GetBuffer
  <2> QED
    BY <1>1, <2>1, AllocateKeeps
<1>4. CASE GetName(u)
  <2>1. CASE Fits(u)
    <3>1. pc[u] = "getName" /\ b.len = b.cap /\ b.cap \in Nat
      BY <1>1, <1>4 DEF GetName, Goes, WordOf
    <3> DEFINE l == Written(b.len, nameLen[u])
    <3>2. nameLen[u] <= AsCInt(b.cap) /\ nameLen[u] <= b.cap
      BY <1>1, <2>1, <3>1, AsCIntBelow DEF Fits
    <3>3. l \in 0 .. MaxAlloc /\ l <= b.cap
      <4>1. l \in Nat /\ l <= b.cap
        BY <1>1, <3>1, <3>2, WrittenBelow
      <4> HIDE DEF l
      <4> QED
        BY <1>1, <4>1, Bounds
    <3>4. /\ nameBuffer' = [nameBuffer EXCEPT ![u].len = l]
          /\ pc' = [pc EXCEPT ![u] = "rebuild"] /\ UNCHANGED <<halted, size, nameLen, name>>
      BY <1>4, <2>1 DEF GetName, Goes
    <3>5. nameBuffer' \in [Loaders -> Buffers]
      BY <3>3, <3>4 DEF TypeOK, Buffers
    <3>6. nameBuffer'[u].cap = b.cap /\ nameBuffer'[u].len = l
      BY <3>4 DEF TypeOK, Buffers
    <3> HIDE DEF l
    <3> QED
      BY <3>2, <3>3, <3>4, <3>5, <3>6 DEF TypeOK, WordOf, Steps
  <2>2. CASE ~Fits(u)
    BY <1>4, <2>2 DEF GetName, Goes, TypeOK, WordOf, Steps
  <2> QED
    BY <2>1, <2>2
<1>5. CASE Glow(u)
  <2>1. size' \in 1 .. 2 * MaxAlloc
    BY <1>1, <1>5, Bounds DEF Glow, Goes, WordOf
  <2> QED
    BY <1>5, <2>1 DEF Glow, Goes, TypeOK, WordOf, Steps
<1>6. CASE MakeBuffer(u)
  <2>1. PICK n \in {size, 2 * b.cap} : Allocate(u, "make", n)
    BY <1>6 DEF MakeBuffer
  <2>2. n \in Nat /\ n >= 1
    BY <1>1, <2>1 DEF Allocate, Goes, WordOf
  <2>3. UNCHANGED <<size, nameLen, name>>
    BY <1>6 DEF MakeBuffer
  <2> QED
    BY <2>1, <2>2, <2>3, AllocateKeeps
<1>7. CASE Rebuild(u)
  <2>1. nameBuffer[u].len \in 0 .. MaxAlloc
    BY BufferFields
  <2> QED
    BY <1>7, <2>1 DEF Rebuild, Goes, TypeOK, WordOf, Steps
<1> QED
  BY <1>2, <1>3, <1>4, <1>5, <1>6, <1>7 DEF Advance

LEMMA WordStep == WordInv /\ [Next]_vars => WordInv'
<1> SUFFICES ASSUME WordInv, [Next]_vars PROVE WordInv'
  OBVIOUS
<1>1. ASSUME NEW u \in Loaders, AskName(u) \/ Advance(u) PROVE WordInv'
  <2>1. ASSUME NEW v \in Loaders \ {u} PROVE WordOf(v)'
    BY <1>1, OthersKeep DEF WordInv, WordOf
  <2> QED
    BY <1>1, <2>1, WordOfMover DEF WordInv
<1>2. CASE UNCHANGED vars
  BY <1>2 DEF vars, WordInv, TypeOK, WordOf
<1> QED
  BY <1>1, <1>2 DEF Next

LEMMA WordHolds == Spec => []WordInv
BY WordInit, WordStep, PTL DEF Spec

\* Every variable keeps its type, the shared size its bound.
THEOREM NameTypeCorrect == Spec => []TypeOK
<1>1. WordInv => TypeOK
  BY DEF WordInv
<1> QED
  BY WordHolds, <1>1, PTL

-----------------------------------------------------------------------------
(* The sizes: doubled from the initial one, they skip what a name out of   *)
(* reach could fit.                                                        *)

LEMMA DoubledStep ==
  ASSUME NEW S, Below(S), WordInv, DoubledInv(S), [Next]_vars
  PROVE  DoubledInv(S)'
<1> USE DEF WordInv
<1>1. ASSUME NEW u \in Loaders, AskName(u) \/ Advance(u) PROVE DoubledInv(S)'
  <2> DEFINE b == nameBuffer[u]
             Of(v) == pc[v] \in {"getName", "glow", "make"} => Doubled(S, nameBuffer[v].cap)
  <2>1. \A v \in Loaders \ {u} : Of(v)'
    BY <1>1, OthersKeep DEF DoubledInv
  <2>2. b.cap \in Nat /\ size \in Nat /\ 2 * b.cap \in Nat
    BY BufferFields
  <2>3. ASSUME NEW n \in Nat, NEW from, Allocate(u, from, n), Doubled(S, n),
               pc[u] = "make" => Doubled(S, b.cap), from \in {"make", "getBuffer"}
        PROVE  Of(u)'
    <3>1. pc[u] = from
      BY <2>3, Bounds DEF Allocate, Goes
    <3> QED
      BY <2>3, <3>1, AllocateMakes
  <2>4. CASE AskName(u) \/ Rebuild(u)
    <3>1. pc'[u] \in {"getBuffer", "idle"} /\ size' = size
      BY <2>4 DEF AskName, Rebuild, Goes, TypeOK
    <3> QED
      BY <2>1, <3>1 DEF DoubledInv
  <2>5. CASE GetBuffer(u)
    <3>1. UNCHANGED size /\ Allocate(u, "getBuffer", size) /\ pc[u] = "getBuffer"
      BY <2>5 DEF GetBuffer, Allocate, Goes
    <3>2. Of(u)'
      BY <2>2, <2>3, <3>1 DEF DoubledInv
    <3> QED
      BY <2>1, <3>1, <3>2 DEF DoubledInv
  <2>6. CASE GetName(u)
    <3>1. pc[u] = "getName" /\ UNCHANGED size /\ nameBuffer'[u].cap = b.cap
      BY <2>6 DEF GetName, Goes, TypeOK, Buffers
    <3> QED
      BY <2>1, <3>1 DEF DoubledInv
  <2>7. CASE Glow(u)
    <3>1. pc[u] = "glow" /\ size' = 2 * b.cap /\ UNCHANGED nameBuffer
      BY <2>7 DEF Glow, Goes
    <3>2. Doubled(S, size') /\ Doubled(S, nameBuffer'[u].cap)
      BY <2>2, <3>1, DoubledTwice DEF DoubledInv
    <3> QED
      BY <2>1, <3>2 DEF DoubledInv
  <2>8. CASE MakeBuffer(u)
    <3>1. PICK n \in {size, 2 * b.cap} : Allocate(u, "make", n)
      BY <2>8 DEF MakeBuffer
    <3>2. pc[u] = "make" /\ UNCHANGED size
      BY <2>8 DEF MakeBuffer, Allocate, Goes
    <3>3. Doubled(S, b.cap) /\ Doubled(S, n) /\ n \in Nat
      BY <2>2, <3>1, <3>2, DoubledTwice DEF DoubledInv
    <3>4. Of(u)'
      BY <2>3, <3>1, <3>3
    <3> QED
      BY <2>1, <3>2, <3>4 DEF DoubledInv
  <2> QED
    BY <1>1, <2>4, <2>5, <2>6, <2>7, <2>8 DEF Advance
<1>2. CASE UNCHANGED vars
  BY <1>2 DEF vars, DoubledInv
<1> QED
  BY <1>1, <1>2 DEF Next

\* A Load whose name is out of reach stays where it is.
LEMMA StuckStays ==
  ASSUME NEW S, Below(S), WordInv, DoubledInv(S), [Next]_vars,
         NEW u \in Loaders, Stuck(u)
  PROVE  Stuck(u)'
<1> USE DEF WordInv
<1>1. CASE AskName(u) \/ Rebuild(u)
  BY <1>1 DEF AskName, Rebuild, Goes, Stuck
<1>2. CASE GetBuffer(u) \/ MakeBuffer(u)
  <2>1. PICK n, from : Allocate(u, from, n) /\ UNCHANGED nameLen
    BY <1>2 DEF GetBuffer, MakeBuffer
  <2>2. pc' = pc \/ pc'[u] = "getName"
    BY <2>1 DEF Allocate, Goes, TypeOK
  <2> QED
    BY <2>1, <2>2 DEF Stuck
<1>3. CASE GetName(u)
  <2>1. /\ pc[u] = "getName" /\ nameBuffer[u].len = nameBuffer[u].cap
        /\ nameBuffer[u].cap >= 1 /\ Doubled(S, nameBuffer[u].cap)
    BY <1>3 DEF GetName, Goes, WordOf, DoubledInv
  <2>2. ~Fits(u)
    BY <2>1, BufferFields, OutOfReachNeverFits DEF Fits, Stuck
  <2>3. pc'[u] = "glow" /\ UNCHANGED nameLen
    BY <1>3, <2>2 DEF GetName, Goes, TypeOK
  <2> QED
    BY <2>3 DEF Stuck
<1>4. CASE Glow(u)
  BY <1>4 DEF Glow, Goes, Stuck, TypeOK
<1>5. ASSUME NEW v \in Loaders \ {u}, AskName(v) \/ Advance(v) PROVE Stuck(u)'
  BY <1>5, OthersKeep DEF Stuck
<1>6. CASE UNCHANGED vars
  BY <1>6 DEF vars, Stuck
<1> QED
  BY <1>1, <1>2, <1>3, <1>4, <1>5, <1>6 DEF Next, Advance

-----------------------------------------------------------------------------
(* Capacities and names, until a Load is stuck.                            *)

LEMMA CapacityStep ==
  ASSUME WordInv, CapacityInv, [Next]_vars, \A u \in Loaders : ~Stuck(u)
  PROVE  CapacityInv'
<1> USE DEF WordInv, CapacityInv
<1>1. ASSUME NEW u \in Loaders, AskName(u) \/ Advance(u) PROVE CapacityInv'
  <2> DEFINE b == nameBuffer[u]
  <2>1. \A v \in Loaders \ {u} : CapacityOf(v)'
    BY <1>1, OthersKeep DEF CapacityOf
  <2>2. /\ b.cap \in Nat /\ nameLen[u] \in Nat /\ size \in Nat /\ 2 * b.cap \in Nat
        /\ CIntMax \in Nat /\ MaxAlloc \in Nat /\ CIntMax <= MaxAlloc /\ size <= CIntMax
    BY BufferFields, Bounds
  <2>3. ASSUME NEW n \in Nat, NEW from, Allocate(u, from, n), n <= CIntMax
        PROVE  ~halted' /\ CapacityOf(u)'
    <3>1. ~(n > MaxAlloc)
      BY <2>2, <2>3
    <3>2. UNCHANGED halted /\ pc'[u] = "getName" /\ nameBuffer'[u].cap = n
      BY <2>3, <3>1, AllocateMakes
    <3> QED
      BY <2>3, <3>2 DEF CapacityOf
  <2>4. CASE AskName(u)
    BY <2>1, <2>4 DEF AskName, Goes, CapacityOf, TypeOK
  <2>5. CASE GetBuffer(u)
    BY <2>1, <2>2, <2>3, <2>5 DEF GetBuffer
  <2>6. CASE GetName(u)
    <3>1. UNCHANGED <<halted, size>>
      BY <2>6 DEF GetName
    <3>2. CASE Fits(u)
      <4>1. b.len = b.cap /\ b.cap <= CIntMax
        BY <2>6 DEF GetName, Goes, WordOf, CapacityOf
      <4>2. Written(b.len, nameLen[u]) = nameLen[u]
        BY <2>2, <4>1, WrittenBelow
      <4>3. pc'[u] = "rebuild" /\ nameBuffer'[u].len = nameLen[u] /\ nameLen' = nameLen
        BY <2>6, <3>2, <4>2 DEF GetName, Goes, TypeOK, Buffers
      <4> QED
        BY <2>1, <3>1, <4>3 DEF CapacityOf
    <3>3. CASE ~Fits(u)
      <4>1. pc[u] = "getName" /\ b.len = b.cap /\ b.cap <= CIntMax
        BY <2>6 DEF GetName, Goes, WordOf, CapacityOf
      <4>2. nameLen[u] > b.cap
        BY <2>2, <3>3, <4>1, AsCIntBelow DEF Fits
      <4>3. 2 * (nameLen[u] - 1) <= CIntMax
        BY <4>1 DEF Stuck, InReach
      <4>4. 2 * b.cap <= CIntMax
        BY <2>2, <4>2, <4>3
      <4>5. pc'[u] = "glow" /\ nameBuffer'[u] = b
        BY <2>6, <3>3 DEF GetName, Goes, TypeOK
      <4> QED
        BY <2>1, <3>1, <4>4, <4>5 DEF CapacityOf
    <3> QED
      BY <3>2, <3>3
  <2>7. CASE Glow(u)
    <3>1. size' = 2 * b.cap /\ pc[u] = "glow" /\ pc'[u] = "make" /\ UNCHANGED <<halted, nameBuffer>>
      BY <2>7 DEF Glow, Goes, TypeOK
    <3> QED
      BY <2>1, <3>1 DEF CapacityOf
  <2>8. CASE MakeBuffer(u)
    <3>1. PICK n \in {size, 2 * b.cap} : Allocate(u, "make", n)
      BY <2>8 DEF MakeBuffer
    <3>2. n \in Nat /\ n <= CIntMax
      BY <2>2, <3>1 DEF Allocate, Goes, CapacityOf
    <3> QED
      BY <2>1, <2>3, <2>8, <3>1, <3>2 DEF MakeBuffer
  <2>9. CASE Rebuild(u)
    <3>1. pc'[u] = "idle" /\ name'[u] = nameLen[u] /\ nameLen' = nameLen
      BY <2>9 DEF Rebuild, Goes, CapacityOf, TypeOK
    <3> QED
      BY <2>1, <2>9, <3>1 DEF Rebuild, CapacityOf
  <2> QED
    BY <1>1, <2>4, <2>5, <2>6, <2>7, <2>8, <2>9 DEF Advance
<1>2. CASE UNCHANGED vars
  BY <1>2 DEF vars, CapacityOf
<1> QED
  BY <1>1, <1>2 DEF Next

LEMMA ReachHolds ==
  ASSUME NEW CONSTANT S, Below(S)
  PROVE  Spec => []ReachInv
<1>1. Init => DoubledInv(S) /\ ReachInv
  BY Bounds DEF Init, DoubledInv, Doubled, Below, ReachInv, CapacityInv, CapacityOf
<1>2. WordInv /\ DoubledInv(S) /\ [Next]_vars => DoubledInv(S)'
  BY DoubledStep
<1>3. WordInv /\ DoubledInv(S) /\ ReachInv /\ [Next]_vars => ReachInv'
  <2> SUFFICES ASSUME WordInv, DoubledInv(S), ReachInv, [Next]_vars PROVE ReachInv'
    OBVIOUS
  <2>1. CASE \E u \in Loaders : Stuck(u)
    BY <2>1, StuckStays DEF ReachInv
  <2>2. CASE \A u \in Loaders : ~Stuck(u)
    BY <2>2, CapacityStep DEF ReachInv
  <2> QED
    BY <2>1, <2>2
<1> QED
  BY WordHolds, <1>1, <1>2, <1>3, PTL DEF Spec

LEMMA StuckIsLong == (\E u \in Loaders : Stuck(u)) => LongNameAsked
BY DEF Stuck, LongNameAsked

\* Whatever the sizes the Loads leave each other, and however they wrap, no copy
\* and no read leaves a buffer; and a name is returned whole, unless a Load asks
\* for a name of more than half of the C int.
THEOREM NamesWhole == Spec => []NameWhole
<1>1. PICK S : Below(S)
  BY DoublingAssumption DEF Below
<1>2. Spec => []ReachInv
  BY <1>1, ReachHolds
<1>3. WordInv /\ ReachInv => NameWhole
  BY StuckIsLong DEF WordInv, WordOf, ReachInv, CapacityInv, CapacityOf, NameWhole
<1> QED
  BY WordHolds, <1>2, <1>3, PTL

\* The process dies of the sizes only while a Load asks for a name of more than
\* half of the C int.
THEOREM DiesOfLongNames == Spec => []HaltsOnlyOfLongName
<1>1. PICK S : Below(S)
  BY DoublingAssumption DEF Below
<1>2. Spec => []ReachInv
  BY <1>1, ReachHolds
<1>3. ReachInv => HaltsOnlyOfLongName
  BY StuckIsLong DEF ReachInv, CapacityInv, HaltsOnlyOfLongName
<1> QED
  BY <1>2, <1>3, PTL

-----------------------------------------------------------------------------
(* The floor under the sizes.                                              *)

\* A buffer that is made of a capacity that is not below the floor.
LEMMA AllocateAbove ==
  ASSUME WordInv, NEW n \in 1 .. MaxAlloc, AtLeast(n), UNCHANGED size,
         NEW u \in Loaders, NEW from, NEW m \in Nat, m >= n, Allocate(u, from, m),
         \A v \in Loaders \ {u} : pc'[v] = pc[v] /\ nameBuffer'[v] = nameBuffer[v]
  PROVE  AtLeast(n)'
<1>1. TypeOK
  BY DEF WordInv
<1>2. CASE halted'
  BY <1>1, <1>2, AllocateMakes, Bounds DEF AtLeast, Allocate, TypeOK, Goes
<1>3. CASE ~halted'
  <2>1. nameBuffer'[u].cap = m
    BY <1>1, <1>3, AllocateMakes
  <2> QED
    BY <2>1 DEF AtLeast
<1> QED
  BY <1>2, <1>3

LEMMA FloorStep ==
  ASSUME WordInv, NEW n \in 1 .. MaxAlloc, AtLeast(n), [Next]_vars
  PROVE  AtLeast(n)'
<1>1. /\ TypeOK /\ size \in Nat /\ n \in Nat
      /\ \A u \in Loaders : nameBuffer[u].cap \in Nat
  BY BufferFields, Bounds DEF WordInv, TypeOK
<1>2. ASSUME NEW u \in Loaders, AskName(u) \/ Advance(u) PROVE AtLeast(n)'
  <2>1. \A v \in Loaders \ {u} : pc'[v] = pc[v] /\ nameBuffer'[v] = nameBuffer[v]
    BY <1>1, <1>2, OthersKeep
  <2>2. CASE AskName(u) \/ Rebuild(u)
    <3>1. pc'[u] \in {"getBuffer", "idle"}
      BY <1>1, <2>2 DEF AskName, Rebuild, Goes, TypeOK
    <3>2. size' = size
      BY <2>2 DEF AskName, Rebuild
    <3> QED
      BY <2>1, <3>1, <3>2 DEF AtLeast
  <2>3. CASE GetBuffer(u)
    <3>1. size >= n /\ UNCHANGED size /\ Allocate(u, "getBuffer", size)
      BY <2>3 DEF GetBuffer, AtLeast
    <3> QED
      BY <1>1, <2>1, <3>1, AllocateAbove
  <2>4. CASE GetName(u)
    <3>1. pc[u] = "getName" /\ UNCHANGED size /\ nameBuffer'[u].cap = nameBuffer[u].cap
      BY <1>1, <2>4 DEF GetName, Goes, TypeOK, Buffers
    <3> QED
      BY <2>1, <3>1 DEF AtLeast
  <2>5. CASE Glow(u)
    <3>1. pc[u] = "glow" /\ size' = 2 * nameBuffer[u].cap /\ UNCHANGED nameBuffer
      BY <2>5 DEF Glow, Goes
    <3>2. size' >= n
      BY <1>1, <3>1 DEF AtLeast
    <3> QED
      BY <2>1, <3>1, <3>2 DEF AtLeast
  <2>6. CASE MakeBuffer(u)
    <3>1. PICK m \in {size, 2 * nameBuffer[u].cap} : Allocate(u, "make", m)
      BY <2>6 DEF MakeBuffer
    <3>2. pc[u] = "make" /\ UNCHANGED size
      BY <2>6 DEF MakeBuffer, Allocate, Goes
    <3>3. m \in Nat /\ m >= n
      BY <1>1, <3>1, <3>2 DEF AtLeast
    <3> QED
      BY <2>1, <3>1, <3>2, <3>3, AllocateAbove
  <2> QED
    BY <1>2, <2>2, <2>3, <2>4, <2>5, <2>6 DEF Advance
<1>3. CASE UNCHANGED vars
  BY <1>3 DEF vars, AtLeast
<1> QED
  BY <1>2, <1>3 DEF Next

\* Whatever the Loads undo of each other's growth, no size and no buffer goes
\* below the smallest capacity in play, for any names.
THEOREM NameFloorHolds == Spec => FloorHolds
<1>1. WordInv /\ [Next]_vars => [\A n \in 1 .. MaxAlloc : AtLeast(n) => AtLeast(n)']_vars
  BY FloorStep
<1> QED
  BY WordHolds, <1>1, PTL DEF Spec, FloorHolds
=============================================================================
