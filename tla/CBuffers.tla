------------------------------ MODULE CBuffers ------------------------------
(***************************************************************************)
(* What every call across the C boundary relies on: the buffers of         *)
(* plugger/manager.go with the C int that carries their capacity to the    *)
(* plugin and the length of the answer back, and the id generators.        *)
(***************************************************************************)
EXTENDS IdGenerator

CONSTANTS
  CIntMax,    \* largest C int: 2^31 - 1 in the code
  MaxAlloc    \* largest capacity make([]byte, 0, n) can allocate

ASSUME CIntAssumption ==
  /\ CIntMax \in Nat
  /\ MaxAlloc \in Nat
  /\ CIntMax <= MaxAlloc

\* What the plugin reads, as int(*lenPtr), from the word that holds n.
AsCInt(n) ==
  IF n <= CIntMax
    THEN n
    ELSE ((n + CIntMax + 1) % (2 * (CIntMax + 1))) - (CIntMax + 1)

\* The word after the plugin has written n into it: the plugin writes a C int,
\* the low half of the Go int the host reads back, and the high half stays. As
\* long as the word fits the C int it becomes n.
Written(word, n) == word - (word % (2 * (CIntMax + 1))) + n

\* A byte slice of capacity n with the word that first holds its capacity.
BufferOf(n) == [cap |-> n, len |-> n]

\* Whether data of length n, or the text of an error (none when ~failed) of
\* length n, fits: the plugin compares with the word, never with the capacity.
HoldsData(buf, n) == n = 0 \/ n <= AsCInt(buf.len)
HoldsError(buf, failed, n) == ~failed \/ n <= AsCInt(buf.len)

Buffers == [cap : 0 .. MaxAlloc, len : 0 .. MaxAlloc]
=============================================================================
