------------------------- MODULE PluginConsoleProofs -------------------------
(***************************************************************************)
(* The Modules tab and the plugin loader for any number of plugins and of  *)
(* requests in flight.                                                     *)
(***************************************************************************)
EXTENDS PluginConsole, FiniteSetTheorems, TLAPS

Disposing(r, p) == r.kind = "unload" /\ r.id = p /\ r.at = "suspended"
Unloading(p) == {i \in Slot : Disposing(requests[i], p)}

\* Requests are about plugins, and only some plugins suspend.
RequestsMakeSense ==
    \A i \in Slot :
        /\ requests[i].kind \in {"load", "unload"} => requests[i].id \in Plugin
        /\ requests[i].at = "suspended" =>
              requests[i].kind \in {"load", "unload"} /\ requests[i].id \in Suspends

\* A loaded plugin has an instance, and every dispose that is suspended has
\* one of its own left to tear down.
EnoughInstances ==
    \A p \in Plugin :
        Cardinality(Unloading(p)) + (IF p \in loaded THEN 1 ELSE 0) <= live[p]

ConsoleInv == TypeOK /\ RequestsMakeSense /\ EnoughInstances /\ OneInstance

\* How a change of one request changes the disposes under way.
LEMMA OneRequest ==
    ASSUME NEW i \in Slot, NEW p \in Plugin,
           \A j \in Slot \ {i} : requests'[j] = requests[j]
    PROVE  /\ IsFiniteSet(Unloading(p)) /\ Cardinality(Unloading(p)) \in Nat
           /\ (Disposing(requests'[i], p) <=> Disposing(requests[i], p))
                 => Unloading(p)' = Unloading(p)
           /\ Disposing(requests'[i], p) /\ ~Disposing(requests[i], p)
                 => Cardinality(Unloading(p)') = Cardinality(Unloading(p)) + 1
           /\ ~Disposing(requests'[i], p) /\ Disposing(requests[i], p)
                 => Cardinality(Unloading(p)') = Cardinality(Unloading(p)) - 1
<1>1. IsFiniteSet(Unloading(p)) /\ Cardinality(Unloading(p)) \in Nat
    <2>1. Unloading(p) \subseteq Slot
        BY DEF Unloading
    <2>. QED
        BY <2>1, SlotAssumption, FS_Subset, FS_CardinalityType
<1>2. ASSUME Disposing(requests'[i], p), ~Disposing(requests[i], p)
      PROVE  Cardinality(Unloading(p)') = Cardinality(Unloading(p)) + 1
    <2>1. Unloading(p)' = Unloading(p) \cup {i} /\ i \notin Unloading(p)
        BY <1>2 DEF Unloading
    <2>. QED
        BY <1>1, <2>1, FS_AddElement
<1>3. ASSUME ~Disposing(requests'[i], p), Disposing(requests[i], p)
      PROVE  Cardinality(Unloading(p)') = Cardinality(Unloading(p)) - 1
    <2>1. Unloading(p)' = Unloading(p) \ {i} /\ i \in Unloading(p)
        BY <1>3 DEF Unloading
    <2>. QED
        BY <1>1, <2>1, FS_RemoveElement
<1>4. ASSUME Disposing(requests'[i], p) <=> Disposing(requests[i], p)
      PROVE  Unloading(p)' = Unloading(p)
    BY <1>4 DEF Unloading
<1>. QED
    BY <1>1, <1>2, <1>3, <1>4

\* Requests that tear a plugin down find an instance each.
LEMMA Enough ==
    ASSUME EnoughInstances, live \in [Plugin -> Nat], NEW p \in Plugin
    PROVE  /\ Cardinality(Unloading(p)) \in Nat /\ live[p] \in Nat
           /\ Cardinality(Unloading(p)) + (IF p \in loaded THEN 1 ELSE 0) <= live[p]
<1>1. Unloading(p) \subseteq Slot
    BY DEF Unloading
<1>. QED
    BY <1>1, SlotAssumption, FS_Subset, FS_CardinalityType DEF EnoughInstances

\* The tab opens with the invariant.
LEMMA InitConsole == Init => ConsoleInv
<1>. SUFFICES ASSUME Init PROVE ConsoleInv
    OBVIOUS
<1>1. NoRequest \in Request
    BY DEF NoRequest, Request
<1>2. TypeOK
    BY <1>1 DEF Init, TypeOK
<1>3. RequestsMakeSense
    BY DEF Init, RequestsMakeSense, NoRequest
<1>4. \A p \in Plugin : Unloading(p) = {}
    BY DEF Init, Unloading, Disposing, NoRequest
<1>5. EnoughInstances
    BY <1>4, FS_EmptySet DEF Init, EnoughInstances
<1>6. OneInstance
    BY DEF Init, OneInstance
<1>. QED
    BY <1>2, <1>3, <1>5, <1>6 DEF ConsoleInv

\* Every step keeps it.
LEMMA ConsoleStep == ConsoleInv /\ [Next]_vars => ConsoleInv'
<1>. SUFFICES ASSUME ConsoleInv, [Next]_vars PROVE ConsoleInv'
    OBVIOUS
<1>. TypeOK /\ RequestsMakeSense /\ EnoughInstances /\ OneInstance
    BY DEF ConsoleInv
<1>. /\ loaded \subseteq Plugin /\ live \in [Plugin -> Nat]
     /\ requests \in [Slot -> Request]
     /\ healthz = None \/ healthz \subseteq Plugin
     /\ busy \in Plugin \cup {Paste, None}
     /\ \A q \in Poll : polls[q] = None \/ polls[q] \in Health
    BY DEF TypeOK
<1>. PluginAssumption
    BY PluginAssumption
\* A step in which no plugin is set up or torn down, and one request moves.
<1>1. ASSUME NEW i \in Slot, NEW r \in Request,
             requests' = [requests EXCEPT ![i] = r],
             r.kind \in {"load", "unload"} => r.id \in Plugin,
             r.at # "suspended", requests[i].at # "suspended",
             UNCHANGED server,
             healthz' = None \/ healthz' \subseteq Plugin,
             busy' \in Plugin \cup {Paste, None},
             \A q \in Poll : polls'[q] = None \/ polls'[q] \in Health
      PROVE  ConsoleInv'
    <2>1. requests'[i] = r /\ \A j \in Slot \ {i} : requests'[j] = requests[j]
        BY <1>1
    <2>2. TypeOK'
        BY <1>1 DEF TypeOK, server
    <2>3. RequestsMakeSense'
        BY <1>1, <2>1 DEF RequestsMakeSense
    <2>4. EnoughInstances'
        BY <1>1, <2>1, OneRequest DEF EnoughInstances, Disposing, server
    <2>5. OneInstance'
        BY <1>1 DEF OneInstance, server
    <2>. QED
        BY <2>2, <2>3, <2>4, <2>5 DEF ConsoleInv
\* One in which no request moves either.
<1>2. ASSUME UNCHANGED <<server, requests>>,
             healthz' = None \/ healthz' \subseteq Plugin,
             busy' \in Plugin \cup {Paste, None},
             \A q \in Poll : polls'[q] = None \/ polls'[q] \in Health
      PROVE  ConsoleInv'
    BY <1>2 DEF ConsoleInv, TypeOK, RequestsMakeSense, EnoughInstances,
                OneInstance, Unloading, server
\* One in which the handler of a load or an unload of plugin p runs on.
<1>3. ASSUME NEW i \in Slot, NEW p \in Plugin, NEW at \in {"suspended", "done"},
             NEW n \in Nat,
             requests[i].kind \in {"load", "unload"}, requests[i].id = p,
             Step(i, at), at = "suspended" => p \in Suspends,
             loaded' \in {loaded, loaded \cup {p}, loaded \ {p}},
             live' = [live EXCEPT ![p] = n],
             Cardinality(Unloading(p)') + (IF p \in loaded' THEN 1 ELSE 0) <= n,
             p \notin Suspends \cup Raises => n = IF p \in loaded' THEN 1 ELSE 0,
             UNCHANGED <<healthz, busy, polls>>
      PROVE  ConsoleInv'
    <2>1. /\ requests'[i] = [requests[i] EXCEPT !.at = at]
          /\ \A j \in Slot \ {i} : requests'[j] = requests[j]
          /\ requests[i] \in Request
        BY <1>3 DEF Step
    <2>2. /\ requests'[i].kind = requests[i].kind /\ requests'[i].id = p
          /\ requests'[i].at = at /\ requests'[i] \in Request
        BY <1>3, <2>1 DEF Request
    <2>3. TypeOK'
        BY <1>3, <2>1, <2>2 DEF TypeOK, Step
    <2>4. RequestsMakeSense'
        BY <1>3, <2>1, <2>2 DEF RequestsMakeSense
    <2>5. ASSUME NEW q \in Plugin \ {p}
          PROVE  Unloading(q)' = Unloading(q)
        BY <1>3, <2>1, <2>2, OneRequest DEF Disposing
    <2>6. EnoughInstances'
        BY <1>3, <2>5 DEF EnoughInstances
    <2>7. OneInstance'
        BY <1>3 DEF OneInstance
    <2>. QED
        BY <2>3, <2>4, <2>6, <2>7 DEF ConsoleInv
\* The panel
<1>4. ASSUME NEW kind \in {"load", "unload", "score"}, NEW id \in Plugin \cup {Paste},
             kind \in {"load", "unload"} => id \in Plugin,
             Click(kind, id)
      PROVE  ConsoleInv'
    <2>. DEFINE r == [kind |-> kind, id |-> id, at |-> "sent", view |-> {}]
    <2>1. PICK i \in Slot : /\ requests[i] = NoRequest
                            /\ requests' = [requests EXCEPT ![i] = r]
        BY <1>4 DEF Click, Send
    <2>2. r \in Request /\ r.at # "suspended" /\ r.kind = kind /\ r.id = id
        BY <1>4 DEF Request
    <2>3. requests[i].at # "suspended"
        BY <2>1 DEF NoRequest
    <2>. HIDE DEF r
    <2>. QED
        BY <1>1, <1>4, <2>1, <2>2, <2>3 DEF Click
<1>5. ASSUME NEW p \in Plugin, ClickLoad(p) \/ ClickUnload(p) PROVE ConsoleInv'
    BY <1>4, <1>5 DEF ClickLoad, ClickUnload
<1>6. CASE ClickScore
    BY <1>4, <1>6 DEF ClickScore
<1>7. ASSUME NEW q \in Poll, PollAnswered(q) \/ HealthzPoll(q) PROVE ConsoleInv'
    <2>1. CASE PollAnswered(q)
        <3>1. polls[q] \in Health /\ healthz' \subseteq Plugin
            BY <2>1 DEF PollAnswered, Health
        <3>2. \A z \in Poll : polls'[z] = None \/ polls'[z] = polls[z]
            <4>1. polls' = [polls EXCEPT ![q] = None]
                BY <2>1 DEF PollAnswered
            <4>. QED
                BY <4>1 DEF PollAnswered
        <3>. QED
            BY <1>2, <2>1, <3>1, <3>2 DEF PollAnswered
    <2>2. CASE HealthzPoll(q)
        <3>1. [plugins |-> loaded] \in Health
            BY DEF Health
        <3>2. \A z \in Poll : polls'[z] = [plugins |-> loaded] \/ polls'[z] = polls[z]
            BY <2>2 DEF HealthzPoll
        <3>. QED
            BY <1>2, <2>2, <3>1, <3>2 DEF HealthzPoll
    <2>. QED
        BY <1>7, <2>1, <2>2
<1>8. ASSUME NEW i \in Slot, Answered(i) \/ Failed(i) PROVE ConsoleInv'
    <2>1. /\ requests' = [requests EXCEPT ![i] = NoRequest]
          /\ requests[i].at # "suspended"
          /\ busy' = None /\ UNCHANGED <<server, polls>>
        BY <1>8 DEF Answered, Failed, Settled
    <2>2. healthz' = None \/ healthz' \subseteq Plugin
        BY <1>8 DEF Answered, Failed, Request
    <2>3. /\ NoRequest \in Request /\ NoRequest.at # "suspended"
          /\ NoRequest.kind \notin {"load", "unload"}
        BY DEF NoRequest, Request
    <2>. QED
        BY <1>1, <2>1, <2>2, <2>3
\* The server
<1>9. ASSUME NEW i \in Slot, PluginsLoad(i) PROVE ConsoleInv'
    <2>0. PICK p \in Plugin : p = requests[i].id
        BY <1>9 DEF PluginsLoad, Is, RequestsMakeSense
    <2>1. requests[i].kind = "load"
        BY <1>9 DEF PluginsLoad, Is
    <2>2. ASSUME NEW at, Step(i, at) PROVE Unloading(p)' = Unloading(p)
        <3>1. requests'[i].kind = "load" /\ \A j \in Slot \ {i} : requests'[j] = requests[j]
            BY <2>0, <2>1, <2>2 DEF Step, Request
        <3>. QED
            BY <2>0, <2>1, <3>1, OneRequest DEF Disposing
    <2>3. Cardinality(Unloading(p)) + (IF p \in loaded THEN 1 ELSE 0) <= live[p]
          /\ Cardinality(Unloading(p)) \in Nat /\ live[p] \in Nat
        BY Enough
    <2>4. CASE Step(i, "done") /\ UNCHANGED server
        <3>1. live' = [live EXCEPT ![p] = live[p]]
            BY <2>4 DEF server
        <3>2. p \notin Suspends \cup Raises => live[p] = IF p \in loaded' THEN 1 ELSE 0
            BY <2>4 DEF OneInstance, server
        <3>3. UNCHANGED <<loaded, healthz, busy, polls>>
            BY <1>9, <2>4 DEF PluginsLoad, server
        <3>. QED
            BY <1>3, <2>0, <2>1, <2>2, <2>3, <2>4, <3>1, <3>2, <3>3
    <2>5. CASE p \notin loaded /\ Loaded(p) /\ Step(i, "done")
        <3>. DEFINE n == live[p] + 1
        <3>1. live' = [live EXCEPT ![p] = n] /\ loaded' = loaded \cup {p} /\ n \in Nat
            BY <2>3, <2>5 DEF Loaded
        <3>2. Cardinality(Unloading(p)') + (IF p \in loaded' THEN 1 ELSE 0) <= n
            BY <2>2, <2>3, <2>5, <3>1
        <3>3. p \notin Suspends \cup Raises => n = IF p \in loaded' THEN 1 ELSE 0
            BY <2>5, <3>1 DEF OneInstance
        <3>4. UNCHANGED <<healthz, busy, polls>>
            BY <1>9 DEF PluginsLoad
        <3>. HIDE DEF n
        <3>. QED
            BY <1>3, <2>0, <2>1, <2>5, <3>1, <3>2, <3>3, <3>4
    <2>6. CASE p \in Suspends /\ Step(i, "suspended") /\ UNCHANGED server
        <3>1. live' = [live EXCEPT ![p] = live[p]]
            BY <2>6 DEF server
        <3>. QED
            <4>1. Cardinality(Unloading(p)') + (IF p \in loaded' THEN 1 ELSE 0) <= live[p]
                BY <2>2, <2>3, <2>6 DEF server
            <4>2. UNCHANGED <<loaded, healthz, busy, polls>>
                BY <1>9, <2>6 DEF PluginsLoad, server
            <4>. QED
                BY <1>3, <2>0, <2>1, <2>3, <2>6, <3>1, <4>1, <4>2
    <2>. QED
        BY <1>9, <2>0, <2>4, <2>5, <2>6 DEF PluginsLoad
<1>10. ASSUME NEW i \in Slot, Applied(i) PROVE ConsoleInv'
    <2>0. PICK p \in Plugin : p = requests[i].id
        BY <1>10 DEF Applied, Is, RequestsMakeSense
    <2>1. p \in Suspends /\ requests[i].kind = "load"
        BY <1>10, <2>0 DEF Applied, Is, RequestsMakeSense
    <2>2. Unloading(p)' = Unloading(p)
        <3>1. requests'[i].kind = "load" /\ \A j \in Slot \ {i} : requests'[j] = requests[j]
            BY <1>10, <2>1 DEF Applied, Step, Request
        <3>. QED
            BY <2>0, <2>1, <3>1, OneRequest DEF Disposing
    <2>3. Cardinality(Unloading(p)) + (IF p \in loaded THEN 1 ELSE 0) <= live[p]
          /\ Cardinality(Unloading(p)) \in Nat /\ live[p] \in Nat
        BY Enough
    <2>. QED
        <3>1. PICK n \in Nat :
                /\ live' = [live EXCEPT ![p] = n]
                /\ \/ n = live[p] + 1 /\ loaded' = loaded \cup {p}
                   \/ n = live[p] /\ UNCHANGED loaded
            <4>1. CASE Loaded(p)
                <5>. DEFINE m == live[p] + 1
                <5>1. m \in Nat /\ live' = [live EXCEPT ![p] = m]
                      /\ loaded' = loaded \cup {p}
                    BY <2>3, <4>1 DEF Loaded
                <5>. QED
                    BY <5>1
            <4>2. CASE UNCHANGED server
                <5>1. live' = [live EXCEPT ![p] = live[p]] /\ UNCHANGED loaded
                    BY <4>2 DEF server
                <5>. QED
                    BY <2>3, <5>1
            <4>. QED
                BY <1>10, <2>0, <4>1, <4>2 DEF Applied
        <3>2. Cardinality(Unloading(p)') + (IF p \in loaded' THEN 1 ELSE 0) <= n
            BY <2>2, <2>3, <3>1
        <3>3. Step(i, "done") /\ UNCHANGED <<healthz, busy, polls>>
            BY <1>10 DEF Applied
        <3>. QED
            BY <1>3, <2>0, <2>1, <3>1, <3>2, <3>3
<1>11. ASSUME NEW i \in Slot, PluginsUnload(i) PROVE ConsoleInv'
    <2>0. PICK p \in Plugin : p = requests[i].id
        BY <1>11 DEF PluginsUnload, Is, RequestsMakeSense
    <2>1. requests[i].kind = "unload" /\ requests[i].at = "sent"
        BY <1>11 DEF PluginsUnload, Is
    <2>2. ASSUME NEW at \in {"suspended", "done"}, Step(i, at)
          PROVE  Cardinality(Unloading(p)') =
                    Cardinality(Unloading(p)) + IF at = "suspended" THEN 1 ELSE 0
        <3>1. /\ requests'[i].kind = "unload" /\ requests'[i].id = p
              /\ requests'[i].at = at
              /\ \A j \in Slot \ {i} : requests'[j] = requests[j]
            BY <2>0, <2>1, <2>2 DEF Step, Request
        <3>. QED
            BY <2>0, <2>1, <3>1, OneRequest DEF Disposing
    <2>3. Cardinality(Unloading(p)) + (IF p \in loaded THEN 1 ELSE 0) <= live[p]
          /\ Cardinality(Unloading(p)) \in Nat /\ live[p] \in Nat
        BY Enough
    <2>4. CASE p \notin loaded /\ Step(i, "done") /\ UNCHANGED server
        <3>1. live' = [live EXCEPT ![p] = live[p]]
            BY <2>4 DEF server
        <3>. QED
            BY <1>3, <1>11, <2>0, <2>1, <2>2, <2>3, <2>4, <3>1
            DEF PluginsUnload, OneInstance, server
    <2>5. CASE p \in loaded /\ loaded' = loaded \ {p} /\ Step(i, "done")
               /\ live' = [live EXCEPT ![p] = @ - 1]
        <3>. DEFINE n == live[p] - 1
        <3>1. live' = [live EXCEPT ![p] = n] /\ n \in Nat
            BY <2>3, <2>5
        <3>2. Cardinality(Unloading(p)') + (IF p \in loaded' THEN 1 ELSE 0) <= n
            BY <2>2, <2>3, <2>5
        <3>3. p \notin Suspends \cup Raises => n = IF p \in loaded' THEN 1 ELSE 0
            BY <2>5 DEF OneInstance
        <3>4. UNCHANGED <<healthz, busy, polls>>
            BY <1>11 DEF PluginsUnload
        <3>5. Step(i, "done") /\ loaded' \in {loaded, loaded \cup {p}, loaded \ {p}}
            BY <2>5
        <3>. HIDE DEF n
        <3>. QED
            BY <1>3, <2>0, <2>1, <3>1, <3>2, <3>3, <3>4, <3>5
    <2>6. ASSUME NEW at \in {"suspended", "done"},
                 p \in loaded /\ loaded' = loaded \ {p} /\ Step(i, at)
                 /\ UNCHANGED live /\ p \in Suspends \cup Raises,
                 at = "suspended" => p \in Suspends
          PROVE  ConsoleInv'
        <3>1. live' = [live EXCEPT ![p] = live[p]]
            BY <2>6
        <3>. QED
            BY <1>3, <1>11, <2>0, <2>1, <2>2, <2>3, <2>6, <3>1 DEF PluginsUnload
    <2>. QED
        BY <1>11, <2>0, <2>4, <2>5, <2>6 DEF PluginsUnload
<1>12. ASSUME NEW i \in Slot, Disposed(i) PROVE ConsoleInv'
    <2>0. PICK p \in Plugin : p = requests[i].id
        BY <1>12 DEF Disposed, Is, RequestsMakeSense
    <2>1. /\ p \in Suspends /\ requests[i].kind = "unload"
          /\ requests[i].at = "suspended"
        BY <1>12, <2>0 DEF Disposed, Is, RequestsMakeSense
    <2>2. Cardinality(Unloading(p)') = Cardinality(Unloading(p)) - 1
          /\ Cardinality(Unloading(p)') \in Nat
        <3>1. /\ requests'[i].at = "done"
              /\ \A j \in Slot \ {i} : requests'[j] = requests[j]
            BY <1>12 DEF Disposed, Step, Request
        <3>2. Unloading(p)' \subseteq Slot
            BY DEF Unloading
        <3>. QED
            BY <2>0, <2>1, <3>1, <3>2, OneRequest, SlotAssumption, FS_Subset,
               FS_CardinalityType
            DEF Disposing
    <2>3. Cardinality(Unloading(p)) + (IF p \in loaded THEN 1 ELSE 0) <= live[p]
          /\ Cardinality(Unloading(p)) \in Nat /\ live[p] \in Nat
        BY Enough
    <2>. QED
        <3>1. PICK n \in Nat : live' = [live EXCEPT ![p] = n]
                               /\ n \in {live[p], live[p] - 1}
            <4>1. CASE live' = [live EXCEPT ![p] = @ - 1]
                <5>. DEFINE m == live[p] - 1
                <5>1. m \in Nat /\ live' = [live EXCEPT ![p] = m]
                    BY <2>2, <2>3, <4>1
                <5>. QED
                    BY <5>1
            <4>2. CASE UNCHANGED live
                <5>1. live' = [live EXCEPT ![p] = live[p]]
                    BY <4>2
                <5>. QED
                    BY <2>3, <5>1
            <4>. QED
                BY <1>12, <2>0, <4>1, <4>2 DEF Disposed
        <3>2. Cardinality(Unloading(p)') + (IF p \in loaded' THEN 1 ELSE 0) <= n
            BY <1>12, <2>2, <2>3, <3>1 DEF Disposed
        <3>3. Step(i, "done") /\ UNCHANGED <<loaded, healthz, busy, polls>>
            BY <1>12 DEF Disposed
        <3>. QED
            BY <1>3, <2>0, <2>1, <3>1, <3>2, <3>3
<1>13. ASSUME NEW i \in Slot, ApiEval(i) \/ HealthzRequest(i) PROVE ConsoleInv'
    <2>1. PICK r \in Request : /\ requests' = [requests EXCEPT ![i] = r]
                               /\ r.kind = requests[i].kind /\ r.id = requests[i].id
                               /\ r.at \in {"done", "read"}
        <3>1. \/ requests'[i] = [requests[i] EXCEPT !.at = "done"]
              \/ requests'[i] = [requests[i] EXCEPT !.at = "read", !.view = loaded]
            BY <1>13 DEF ApiEval, HealthzRequest, Step
        <3>2. requests' = [requests EXCEPT ![i] = requests'[i]]
            BY <1>13 DEF ApiEval, HealthzRequest, Step
        <3>3. /\ requests'[i] \in Request /\ requests'[i].at \in {"done", "read"}
              /\ requests'[i].kind = requests[i].kind
              /\ requests'[i].id = requests[i].id
            BY <3>1 DEF Request
        <3>. QED
            BY <3>2, <3>3
    <2>2. requests[i].at # "suspended" /\ UNCHANGED <<server, healthz, busy, polls>>
        BY <1>13 DEF ApiEval, HealthzRequest, Is
    <2>. QED
        BY <1>1, <2>1, <2>2 DEF RequestsMakeSense
<1>14. CASE Restart
    <2>1. ASSUME NEW i \in Slot
          PROVE  /\ requests'[i] \in Request /\ requests'[i].at # "suspended"
                 /\ requests'[i].kind = requests[i].kind
                 /\ requests'[i].id = requests[i].id
        BY <1>14 DEF Restart, Request
    <2>2. \A p \in Plugin : Unloading(p)' = {}
        BY <2>1 DEF Unloading, Disposing
    <2>3. TypeOK'
        BY <1>14, <2>1 DEF Restart, TypeOK
    <2>4. RequestsMakeSense'
        BY <2>1 DEF RequestsMakeSense
    <2>5. EnoughInstances' /\ OneInstance'
        BY <1>14, <2>2, FS_EmptySet DEF Restart, EnoughInstances, OneInstance
    <2>. QED
        BY <2>3, <2>4, <2>5 DEF ConsoleInv
<1>15. CASE UNCHANGED vars
    BY <1>2, <1>15 DEF vars
<1>. QED
    BY <1>5, <1>6, <1>7, <1>8, <1>9, <1>10, <1>11, <1>12, <1>13, <1>14, <1>15
    DEF Next, Handler

\* Every variable keeps to its type: no instance is torn down twice, whatever
\* suspends or raises.
THEOREM ConsoleTypeOK == Spec => []TypeOK
BY InitConsole, ConsoleStep, PTL DEF Spec, ConsoleInv

\* A plugin that neither suspends nor raises is set up exactly once while it
\* is loaded and not at all otherwise.
THEOREM ConsoleOneInstance == Spec => []OneInstance
BY InitConsole, ConsoleStep, PTL DEF Spec, ConsoleInv

=============================================================================
