---------------------------- MODULE DurableStore ----------------------------
(***************************************************************************)
(* What the session manager promises its callers: a map from sessions to   *)
(* contents, of which a second copy survives a restart.  A session is made *)
(* and removed in both at once; a change is shown from then on, and is     *)
(* safe as well, or else the call raised and the caller knows; no call     *)
(* touches any other session; to read or to list changes nothing; a        *)
(* restart shows what was safe, and what was removed stays away.           *)
(***************************************************************************)
VARIABLES
    shown,    \* what get answers, of each session there is
    safe,     \* what it would answer after a restart
    raised,   \* the sessions whose last change is not safe
    removed   \* the sessions that were deleted for good

vars == <<shown, safe, raised, removed>>

\* At most the content of k differs between the maps f and g.
OnlyAt(k, f, g) ==
    DOMAIN f = DOMAIN g /\ \A j \in DOMAIN f \ {k} : f[j] = g[j]

\* The map g is f with the session k as well.
Added(k, f, g) ==
    /\ k \notin DOMAIN f
    /\ DOMAIN g = DOMAIN f \cup {k}
    /\ \A j \in DOMAIN f : g[j] = f[j]

Init == shown = safe /\ raised = {} /\ removed = {}

Make(k) ==
    /\ k \notin removed
    /\ Added(k, shown, shown') /\ Added(k, safe, safe')
    /\ shown'[k] = safe'[k]
    /\ UNCHANGED <<raised, removed>>

Change(k) ==
    /\ k \in DOMAIN shown
    /\ OnlyAt(k, shown, shown')
    /\ \/ /\ OnlyAt(k, safe, safe') /\ safe'[k] = shown'[k]
          /\ raised' = raised \ {k}
       \/ UNCHANGED safe /\ raised' = raised \cup {k}
    /\ UNCHANGED removed

Remove(k) ==
    /\ Added(k, shown', shown) /\ Added(k, safe', safe)
    /\ raised' = raised \ {k}
    /\ removed' = removed \cup {k}

Restart ==
    /\ shown' = safe
    /\ raised' = {}
    /\ UNCHANGED <<safe, removed>>

Next ==
    \/ \E k \in DOMAIN shown' : Make(k)
    \/ \E k \in DOMAIN shown : Change(k) \/ Remove(k)
    \/ Restart

Spec == Init /\ [][Next]_vars

=============================================================================
