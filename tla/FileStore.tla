----------------------------- MODULE FileStore -----------------------------
(***************************************************************************)
(* What the shell's command `stellar <file>` may rely on: a store of files *)
(* that is never written.  A file is asked for by a name and is answered   *)
(* with something the store has under that name, or not at all.            *)
(***************************************************************************)
CONSTANTS Name,   \* what may be typed after `stellar`
          None    \* no request, no answer yet

VARIABLES store,    \* the answers that are right for each name
          request,  \* the name asked for
          answer    \* to the last request

storeVars == <<store, request, answer>>

StoreInit == DOMAIN store = Name /\ request = None /\ answer = None

Ask(n) ==
  /\ request = None
  /\ request' = n /\ answer' = None
  /\ UNCHANGED store

Answer ==
  /\ request # None
  /\ answer' \in store[request] /\ request' = None
  /\ UNCHANGED store

StoreNext == Answer \/ \E n \in Name : Ask(n)

StoreSpec == StoreInit /\ [][StoreNext]_storeVars
=============================================================================
