----------------------------- MODULE PluginName -----------------------------
(***************************************************************************)
(* How the Loads of one Plugger ask libraries for their names:             *)
(* callEpGetName (plugger/plugger.go) and GetName (plugin/entrypoint.go).  *)
(* The plugin keeps nothing for a recall, but the Loads share the size of  *)
(* p.smallBufferMgr, unsynchronised, for as long as the Plugger lives.     *)
(* In Registry a name is known at once: this is what passes meanwhile.     *)
(***************************************************************************)
EXTENDS CBuffers

CONSTANTS
  Loaders,    \* the goroutines that call Load
  Lens,       \* the lengths of the names the libraries have, 0 for no name
  SmallInit   \* smallBufferSize

ASSUME NameAssumption == Lens \subseteq Nat /\ SmallInit \in 1 .. CIntMax

\* Doubling the initial size meets 2^31, one more than the largest C int.
ASSUME DoublingAssumption ==
  \E S \in SUBSET (1 .. CIntMax + 1) :
    SmallInit \in S /\ \A n \in S : n = CIntMax + 1 \/ 2 * n \in S

VARIABLES
  halted,     \* the process died: make was asked for more than it can allocate
  size,       \* p.smallBufferMgr.bufferSize
  pc,         \* where each Load is in callEpGetName
  nameLen,    \* the length of the name its library has
  nameBuffer, \* its nameBuffer, with *nameBufferLenPtr
  name        \* the length of the name it returned, 0 before

vars == <<halted, size, pc, nameLen, nameBuffer, name>>

Goes(u, from, to) ==
  /\ ~halted
  /\ pc[u] = from
  /\ pc' = [pc EXCEPT ![u] = to]

\* make([]byte, 0, n), and the word of the capacity.
Allocate(u, from, n) ==
  \/ /\ n <= MaxAlloc
     /\ Goes(u, from, "getName")
     /\ nameBuffer' = [nameBuffer EXCEPT ![u] = BufferOf(n)]
     /\ UNCHANGED halted
  \/ /\ n > MaxAlloc
     /\ ~halted /\ pc[u] = from
     /\ halted' = TRUE
     /\ UNCHANGED <<pc, nameBuffer>>

\* Load has found the symbols of a library.
AskName(u) ==
  /\ Goes(u, "idle", "getBuffer")
  /\ \E n \in Lens : nameLen' = [nameLen EXCEPT ![u] = n]
  /\ name' = [name EXCEPT ![u] = 0]
  /\ UNCHANGED <<halted, size, nameBuffer>>

GetBuffer(u) ==
  /\ Allocate(u, "getBuffer", size)
  /\ UNCHANGED <<size, nameLen, name>>

\* Mutant of Fits: a name one longer than the buffer.
FitsOneOver(u) == nameLen[u] <= AsCInt(nameBuffer[u].len) + 1
Fits(u) == nameLen[u] <= AsCInt(nameBuffer[u].len)

\* GetName copies the name and its length, or asks for a larger buffer.
GetName(u) ==
  /\ \/ /\ Fits(u)
        /\ Goes(u, "getName", "rebuild")
        /\ nameBuffer' = [nameBuffer EXCEPT ![u].len = Written(@, nameLen[u])]
     \/ /\ ~Fits(u)
        /\ Goes(u, "getName", "glow")
        /\ UNCHANGED nameBuffer
  /\ UNCHANGED <<halted, size, nameLen, name>>

\* Mutant of Glow: the shared size is doubled, not the Load's own buffer.
GlowShared(u) ==
  /\ Goes(u, "glow", "make")
  /\ size' = 2 * size
  /\ UNCHANGED <<halted, nameLen, nameBuffer, name>>

\* glowBuffer stores the doubled capacity in the manager and allocates what
\* the manager says then, or what it stored, as the build has it.
Glow(u) ==
  /\ Goes(u, "glow", "make")
  /\ size' = 2 * nameBuffer[u].cap
  /\ UNCHANGED <<halted, nameLen, nameBuffer, name>>

\* Mutant of MakeBuffer: the buffer is as short as it was.
MakeBufferSame(u) ==
  /\ Allocate(u, "make", nameBuffer[u].cap)
  /\ UNCHANGED <<size, nameLen, name>>

MakeBuffer(u) ==
  /\ \E n \in {size, 2 * nameBuffer[u].cap} : Allocate(u, "make", n)
  /\ UNCHANGED <<size, nameLen, name>>

\* Mutant of Rebuild: the manager gets its initial size back.
RebuildResets(u) ==
  /\ Goes(u, "rebuild", "idle")
  /\ size' = SmallInit
  /\ name' = [name EXCEPT ![u] = nameBuffer[u].len]
  /\ UNCHANGED <<halted, nameLen, nameBuffer>>

\* The name is made of as many bytes as the word says, all of the word.
Rebuild(u) ==
  /\ Goes(u, "rebuild", "idle")
  /\ name' = [name EXCEPT ![u] = nameBuffer[u].len]
  /\ UNCHANGED <<halted, size, nameLen, nameBuffer>>

-----------------------------------------------------------------------------
Init ==
  /\ halted = FALSE
  /\ size = SmallInit
  /\ pc = [u \in Loaders |-> "idle"]
  /\ nameLen = [u \in Loaders |-> 0]
  /\ nameBuffer = [u \in Loaders |-> BufferOf(0)]
  /\ name = [u \in Loaders |-> 0]

Advance(u) == GetBuffer(u) \/ GetName(u) \/ Glow(u) \/ MakeBuffer(u) \/ Rebuild(u)

Next == \E u \in Loaders : AskName(u) \/ Advance(u)

Spec == Init /\ [][Next]_vars

\* Go schedules every goroutine that can run.
FairSpec == Spec /\ \A u \in Loaders : WF_vars(Advance(u))

-----------------------------------------------------------------------------
(* Properties.                                                             *)

Steps == {"idle", "getBuffer", "getName", "glow", "make", "rebuild"}

\* Every variable has its type; no size is more than twice what can be
\* allocated.
TypeOK ==
  /\ halted \in BOOLEAN
  /\ size \in 1 .. 2 * MaxAlloc
  /\ pc \in [Loaders -> Steps]
  /\ nameLen \in [Loaders -> Lens \cup {0}]
  /\ nameBuffer \in [Loaders -> Buffers]
  /\ name \in [Loaders -> 0 .. MaxAlloc]

\* A name a doubled buffer reaches before its capacity stops fitting the C
\* int.
InReach(n) == 2 * (n - 1) <= CIntMax

\* A Load asks for a name of more than half of the C int, which no buffer ever
\* holds: it doubles the shared size until the process dies.
LongNameAsked == \E u \in Loaders : pc[u] # "idle" /\ ~InReach(nameLen[u])

\* Whatever the sizes the Loads leave each other, the plugin writes a name into
\* its buffer and not past it, the host reads no byte outside the buffer, and
\* the name a Load returned is the one its library has, unless another Load
\* has driven the size past the C int since: in a capacity of 2^32 the name ""
\* fits, and is read as 2^32 bytes.
NameWhole ==
  \A u \in Loaders :
    /\ pc[u] = "rebuild" => /\ nameLen[u] <= nameBuffer[u].cap
                            /\ nameBuffer[u].len <= nameBuffer[u].cap
    /\ pc[u] = "idle" => (name[u] = nameLen[u] \/ LongNameAsked)

\* The process dies only while a Load asks for a name of more than half of
\* the C int; another Load may be the one that dies of it.
HaltsOnlyOfLongName == halted => LongNameAsked

\* The capacities in play: the size, and the buffers a Load may still double.
AtLeast(n) ==
  /\ size >= n
  /\ \A u \in Loaders : pc[u] \in {"getName", "glow", "make"} => nameBuffer[u].cap >= n

\* A store may undo another Load's growth, but no store and no buffer goes
\* below the smallest capacity in play.
FloorHolds == [][\A n \in 1 .. MaxAlloc : AtLeast(n) => AtLeast(n)']_vars

\* A Load gets its name, although the others may set the size back under its
\* growth again and again, or the process dies.
LoadsGetName == \A u \in Loaders : pc[u] # "idle" ~> pc[u] = "idle" \/ halted

-----------------------------------------------------------------------------
(* The inductive invariants: of the word a Load shares with the plugin, and *)
(* of the capacities, which leave the C int only while a Load asks for a    *)
(* name that is out of reach, and then skip every value it could fit.       *)

WordOf(u) ==
  LET b == nameBuffer[u]
  IN  /\ pc[u] \in {"getName", "glow", "make"} => b.cap >= 1
      /\ pc[u] = "getName" => b.len = b.cap
      /\ pc[u] = "rebuild" => nameLen[u] <= b.cap /\ b.len <= b.cap

WordInv == TypeOK /\ \A u \in Loaders : WordOf(u)

\* What the sizes are: those that can be doubled to 2^31 without passing it,
\* 2^31, and the multiples of 2^32.
Below(S) ==
  /\ S \subseteq 1 .. CIntMax + 1
  /\ SmallInit \in S
  /\ \A n \in S : n = CIntMax + 1 \/ 2 * n \in S

Doubled(S, n) == n \in S \/ n % (2 * (CIntMax + 1)) = 0

DoubledInv(S) ==
  /\ Doubled(S, size)
  /\ \A u \in Loaders :
       pc[u] \in {"getName", "glow", "make"} => Doubled(S, nameBuffer[u].cap)

\* A Load that will not get its name.
Stuck(u) == pc[u] \in {"getBuffer", "getName", "glow", "make"} /\ ~InReach(nameLen[u])

CapacityOf(u) ==
  /\ pc[u] = "getName" => nameBuffer[u].cap <= CIntMax
  /\ pc[u] \in {"glow", "make"} => 2 * nameBuffer[u].cap <= CIntMax
  /\ pc[u] = "rebuild" => nameBuffer[u].len = nameLen[u]
  /\ pc[u] = "idle" => name[u] = nameLen[u]

CapacityInv == ~halted /\ size <= CIntMax /\ \A u \in Loaders : CapacityOf(u)

ReachInv == (\E u \in Loaders : Stuck(u)) \/ CapacityInv
=============================================================================
