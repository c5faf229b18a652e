---------------------------- MODULE AtomicObject ----------------------------
(***************************************************************************)
(* What write streams promise about the object they write, whatever they   *)
(* do to get there (src/src/lib.rs, lines 118-124): a stream accepts bytes *)
(* while it is open; its object is stored at one instant, whole, and not   *)
(* before `finish` is called; a `finish` that returns Ok has stored it; a  *)
(* stream that is dropped open never stores anything.  A finish that       *)
(* returns an error, or is cancelled, may have stored the object or may    *)
(* still do so: a request that was sent cannot be taken back.              *)
(***************************************************************************)
EXTENDS Naturals

CONSTANTS
    Writers,    \* the write streams on one key
    NoObject,   \* what the key holds before anything is stored
    MaxSize     \* bound: the most bytes a stream accepts

VARIABLES
    state,     \* what the owner of each stream knows
    size,      \* how many bytes each stream has accepted
    object,    \* the current object: whose it is, and its size
    versions   \* every object the key has held

vars == <<state, size, object, versions>>

Init ==
    /\ state = [w \in Writers |-> "absent"]
    /\ size = [w \in Writers |-> 0]
    /\ object = NoObject
    /\ versions = {}

Becomes(w, from, to) ==
    /\ state[w] \in from
    /\ state' = [state EXCEPT ![w] = to]

Create(w) == Becomes(w, {"absent"}, "open") /\ UNCHANGED <<size, object, versions>>

Accept(w) ==
    /\ state[w] = "open"
    /\ \E n \in size[w] + 1 .. MaxSize : size' = [size EXCEPT ![w] = n]
    /\ UNCHANGED <<state, object, versions>>

Finish(w) == Becomes(w, {"open"}, "finishing") /\ UNCHANGED <<size, object, versions>>

\* A late copy of a request may store the same content once more.
Store(w) ==
    /\ state[w] \in {"finishing", "ok", "error", "cancelled"}
    /\ object' = [by |-> w, size |-> size[w]]
    /\ versions' = versions \cup {object'}
    /\ UNCHANGED <<state, size>>

ReturnOk(w) ==
    /\ [by |-> w, size |-> size[w]] \in versions
    /\ Becomes(w, {"finishing"}, "ok")
    /\ UNCHANGED <<size, object, versions>>

ReturnError(w) ==
    Becomes(w, {"finishing"}, "error") /\ UNCHANGED <<size, object, versions>>

Drop(w) ==
    /\ Becomes(w, {"open"}, "dropped") \/ Becomes(w, {"finishing"}, "cancelled")
    /\ UNCHANGED <<size, object, versions>>

Next ==
    \E w \in Writers :
        Create(w) \/ Accept(w) \/ Finish(w) \/ Store(w) \/ ReturnOk(w)
            \/ ReturnError(w) \/ Drop(w)

Spec == Init /\ [][Next]_vars
=============================================================================
