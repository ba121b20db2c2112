---------------------------- MODULE FrontendGroup ----------------------------
(***************************************************************************)
(* What dvb-core/dvb_frontend.c keeps for all frontends together, under    *)
(* frontend_mutex: the list of frontends, the ioctl hooks and notifiers    *)
(* that other drivers add for the frontends of an adapter in any order     *)
(* with the frontends, and the "bending" by which a frontend moves away    *)
(* from another one of its adapter that is tuned to nearly the same        *)
(* frequency.                                                              *)
(***************************************************************************)
EXTENDS Integers, Sequences, SequencesExt

CONSTANTS
  Frontends,   \* the frontends; all sit on one adapter
  Callbacks,   \* what can be hooked in for this adapter
  NoCallback,  \* NULL
  Frequencies, \* that can be asked for, drift included
  Step,        \* frequency_stepsize
  MaxHooks     \* bound: entries in the list of hooks

GroupAssumption ==
  /\ Frequencies \subseteq Int /\ Step \in Nat \ {0} /\ MaxHooks \in Nat
  /\ NoCallback \notin Callbacks

VARIABLES
  list,      \* frontend_list
  hooks,     \* frontend_ioctl_list or frontend_notifier_list, which work alike
  callback,  \* fe->frontend.notifier_callback (or before_ioctl, after_ioctl)
  frequency, \* fe->parameters.frequency + fe->lnb_drift
  bending,   \* fe->bending
  tuned,     \* fe->lost_sync_count # -1
  bent       \* is the frontend through with dvb_bend_frequency?

vars == <<list, hooks, callback, frequency, bending, tuned, bent>>

Init ==
  /\ list = <<>> /\ hooks = <<>>
  /\ callback = [f \in Frontends |-> NoCallback]
  /\ frequency = [f \in Frontends |-> 0]
  /\ bending = [f \in Frontends |-> 0]
  /\ tuned = [f \in Frontends |-> FALSE]
  /\ bent = [f \in Frontends |-> TRUE]

Registered == ToSet(list)

-----------------------------------------------------------------------------
(* Registration.  A frontend takes the first hook of its adapter; a new hook *)
(* is taken by every frontend that has none.                                 *)

dvb_register_frontend(f) ==
  /\ f \notin Registered
  /\ list' = Append(list, f)
  /\ callback' = [callback EXCEPT ![f] = IF hooks = <<>> THEN NoCallback ELSE Head(hooks)]
  /\ frequency' = [frequency EXCEPT ![f] = 0] /\ bending' = [bending EXCEPT ![f] = 0]
  /\ tuned' = [tuned EXCEPT ![f] = FALSE] /\ bent' = [bent EXCEPT ![f] = TRUE]
  /\ UNCHANGED hooks

dvb_unregister_frontend(f) ==
  /\ f \in Registered
  /\ list' = SelectSeq(list, LAMBDA g : g # f)
  /\ UNCHANGED <<hooks, callback, frequency, bending, tuned, bent>>

dvb_add_frontend_notifier(c) ==
  /\ Len(hooks) < MaxHooks
  /\ hooks' = Append(hooks, c)
  /\ callback' = [f \in Frontends |-> IF f \in Registered /\ callback[f] = NoCallback
                                        THEN c ELSE callback[f]]
  /\ UNCHANGED <<list, frequency, bending, tuned, bent>>

without_first(c) ==
  IF c \in ToSet(hooks)
    THEN LET n == SelectInSeq(hooks, LAMBDA h : h = c) IN RemoveAt(hooks, n)
    ELSE hooks

(* One entry goes, and every frontend that had it is left without: another   *)
(* hook that is still in the list is not taken instead.                      *)
dvb_remove_frontend_notifier(c) ==
  /\ callback' = [f \in Frontends |-> IF f \in Registered /\ callback[f] = c
                                        THEN NoCallback ELSE callback[f]]
  /\ hooks' = without_first(c)
  /\ UNCHANGED <<list, frequency, bending, tuned, bent>>

-----------------------------------------------------------------------------
(* Tuning.  The parameters are written under the frontend's own semaphore,   *)
(* the bending is found under frontend_mutex.                                *)

where(f) == frequency[f] + bending[f]
near(f, b, g) == LET d == frequency[f] + b - where(g) IN -Step < d /\ d < Step
disturbed(f, b) == \E g \in Registered \ {f} : tuned[g] /\ near(f, b, g)

SetParameters(f, freq) ==
  /\ f \in Registered
  /\ frequency' = [frequency EXCEPT ![f] = freq]
  /\ tuned' = [tuned EXCEPT ![f] = TRUE]
  /\ bent' = [bent EXCEPT ![f] = FALSE]
  /\ UNCHANGED <<list, hooks, callback, bending>>

(* dvb_bend_frequency at this depth of the recursion: turn round, or go a    *)
(* step further, until nobody is disturbed.                                  *)
turn(b, depth) == IF depth % 2 = 1 THEN b + Step ELSE -b
bend(f) ==
  LET try[depth \in 0 .. 11, b \in -Step .. Step] ==
        IF depth > 10 \/ ~disturbed(f, b) THEN b ELSE try[depth + 1, turn(b, depth)]
  IN try[0, 0]

BendFrequency(f) ==
  /\ ~bent[f] /\ f \in Registered
  /\ bending' = [bending EXCEPT ![f] = bend(f)]
  /\ bent' = [bent EXCEPT ![f] = TRUE]
  /\ UNCHANGED <<list, hooks, callback, frequency, tuned>>

Next ==
  \/ \E f \in Frontends : \/ dvb_register_frontend(f) \/ dvb_unregister_frontend(f)
                          \/ BendFrequency(f)
  \/ \E f \in Frontends, freq \in Frequencies : SetParameters(f, freq)
  \/ \E c \in Callbacks : dvb_add_frontend_notifier(c) \/ dvb_remove_frontend_notifier(c)

Spec == Init /\ [][Next]_vars

-----------------------------------------------------------------------------
TypeOK ==
  /\ Registered \subseteq Frontends
  /\ ToSet(hooks) \subseteq Callbacks
  /\ callback \in [Frontends -> Callbacks \cup {NoCallback}]
  /\ bending \in [Frontends -> -Step .. Step]
  /\ tuned \in [Frontends -> BOOLEAN] /\ bent \in [Frontends -> BOOLEAN]

(* A frontend calls nobody whose entry is gone.                              *)
NoDanglingHook ==
  \A f \in Registered : callback[f] \in ToSet(hooks) \cup {NoCallback}

(* Two frontends that are through with bending do not disturb each other,    *)
(* though each wrote its frequency before it could look at the other.  Only  *)
(* one step to either side is ever tried, so this holds for two frontends    *)
(* and no more.                                                              *)
KeepApart ==
  \A f, g \in Registered :
    f # g /\ tuned[f] /\ tuned[g] /\ bent[f] /\ bent[g] => ~near(f, bending[f], g)
=============================================================================
