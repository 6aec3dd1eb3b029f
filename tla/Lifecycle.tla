----------------------------- MODULE Lifecycle ------------------------------
(***************************************************************************)
(* What a Plugger promises an application that lets nothing overlap its    *)
(* Unload and Free, without handles, tables, ids in flight or locks: a     *)
(* library has a name until it is unloaded, an instance is made in a       *)
(* library that is loaded, lives once, and ends when it is freed or with   *)
(* its library.                                                            *)
(***************************************************************************)
CONSTANTS
  Names,     \* the names libraries are loaded under
  Files,     \* the libraries
  Slots,     \* one for each instance that can ever be made
  None       \* no library

VARIABLES
  loaded,    \* the library behind each name
  life,      \* "unused", "over", or the library an instance lives in
  halted     \* the process died

vars == <<loaded, life, halted>>

LivingIn(fs) == {i \in Slots : life[i] \in fs}
End(ended) == life' = [i \in Slots |-> IF i \in ended THEN "over" ELSE life[i]]

Init ==
  /\ loaded = [n \in Names |-> None]
  /\ life = [i \in Slots |-> "unused"]
  /\ halted = FALSE

Load(n, f) ==
  /\ loaded[n] = None
  /\ loaded' = [loaded EXCEPT ![n] = f]
  /\ UNCHANGED life

Make(i, n) ==
  /\ life[i] = "unused"
  /\ loaded[n] # None
  /\ life' = [life EXCEPT ![i] = loaded[n]]
  /\ UNCHANGED loaded

\* The library makes no instances.
Refuse(i) ==
  /\ life[i] = "unused"
  /\ End({i})
  /\ UNCHANGED loaded

Dispose(i) ==
  /\ i \in LivingIn(Files)
  /\ End({i})
  /\ UNCHANGED loaded

Unload(n) ==
  /\ loaded[n] # None
  /\ End(LivingIn({loaded[n]}))
  /\ loaded' = [loaded EXCEPT ![n] = None]

Clear ==
  /\ End(LivingIn(Files))
  /\ loaded' = [n \in Names |-> None]

Next ==
  /\ ~halted
  /\ \/ /\ UNCHANGED halted
        /\ \/ \E n \in Names, f \in Files : Load(n, f)
           \/ \E i \in Slots : Refuse(i) \/ Dispose(i) \/ \E n \in Names : Make(i, n)
           \/ \E n \in Names : Unload(n)
           \/ Clear
     \/ halted' = TRUE /\ UNCHANGED <<loaded, life>>

Spec == Init /\ [][Next]_vars
=============================================================================
