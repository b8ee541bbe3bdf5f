-------------------------- MODULE KeySettingsProofs --------------------------
(***************************************************************************)
(* The API-keys dialog for any number of rows, keys, extras and requests,  *)
(* and rows that share a key.                                              *)
(***************************************************************************)
EXTENDS KeySettings, TLAPS

\* A row that is not there is not saving.
GoneIsQuiet == \A r \in Row \ rows : state[r] = "quiet"

OfKey(i, k) == requests[i] # None /\ keyName[requests[i].row] = k
SavedRow(k) == \E q \in rows : keyName[q] = k /\ IsRowSaved(q)

\* What a name in `known' stands for: no request of that name overlaps with
\* the list of names or with another one, and the rows tell of it as much as
\* the requests answered so far do.
Told(k) ==
    /\ probe # "idle" => ~Pending(k)
    /\ probe = "read" /\ k \in vault => k \in listed
    /\ \A i, j \in Slot : OfKey(i, k) /\ OfKey(j, k) => i = j
    /\ \A i \in Slot : OfKey(i, k) => requests[i].row \in rows
    /\ \A i \in Slot : /\ OfKey(i, k)
                       /\ requests[i].op = "delete"
                       /\ requests[i].at = "ok"
                       => k \notin vault
    /\ /\ probe = "idle" /\ k \in vault
       /\ \A i \in Slot : OfKey(i, k) => requests[i].at = "sent"
       => SavedRow(k)

SavingInv == TypeOK /\ GoneIsQuiet /\ SavingIsReal
KnownInv == TypeOK /\ \A k \in known : Told(k)

----------------------------------------------------------------------------
\* Types

\* The dialog opens with every variable in its type.
LEMMA InitType == Init => TypeOK
BY RowAssumption DEF Init, TypeOK, Base, BaseKey

\* A request in flight has a row, and the row a name.
LEMMA RequestType ==
    ASSUME TypeOK, NEW i \in Slot, requests[i] # None
    PROVE  /\ requests[i] \in Request
           /\ requests[i].row \in Row
           /\ keyName[requests[i].row] \in Key
BY RowAssumption DEF TypeOK, Request

\* Every step keeps the types.
LEMMA NextType == TypeOK /\ [Next]_vars => TypeOK'
<1>. SUFFICES ASSUME TypeOK, [Next]_vars PROVE TypeOK'
    OBVIOUS
<1>. USE RowAssumption
<1>1. CASE UNCHANGED vars
    BY <1>1 DEF vars, probing, row, TypeOK
<1>2. CASE ModelsArrive
    <2>1. rows' = Base \cup {}
        BY <1>2 DEF ModelsArrive, Fresh
    <2>. QED
        BY <1>2, <2>1 DEF ModelsArrive, Fresh, probing, TypeOK
<1>3. CASE Open
    BY <1>3 DEF Open, row, TypeOK
<1>4. CASE Close
    BY <1>4 DEF Close, row, TypeOK
<1>5. CASE SecretsList
    BY <1>5 DEF SecretsList, row, TypeOK
<1>6. CASE Probed
    <2>1. /\ isStored' = [r \in Row |-> IF r \in rows THEN keyName[r] \in listed
                                        ELSE isStored[r]]
          /\ savedValue' = [r \in Row |-> r \notin rows /\ savedValue[r]]
          /\ isStored \in [Row -> BOOLEAN]
        BY <1>6 DEF Probed, TypeOK
    <2>2. ASSUME NEW r \in Row
          PROVE  (IF r \in rows THEN keyName[r] \in listed
                                ELSE isStored[r]) \in BOOLEAN
        <3>1. isStored[r] \in BOOLEAN
            BY <2>1
        <3>2. (keyName[r] \in listed) \in BOOLEAN
            OBVIOUS
        <3>. QED
            BY <3>1, <3>2, Zenon
    <2>3. isStored' \in [Row -> BOOLEAN] /\ savedValue' \in [Row -> BOOLEAN]
        BY <2>1, <2>2, Zenon
    <2>. QED
        BY <1>6, <2>3 DEF Probed, TypeOK
<1>7. CASE ProbeFailed
    BY <1>7 DEF ProbeFailed, row, TypeOK
<1>8. ASSUME NEW op \in {"save", "delete"}, NEW r \in Row, Ask(op, r)
      PROVE  requests' \in [Slot -> Request \cup {None}] /\ known' \subseteq BaseKey
    BY <1>8 DEF Ask, TypeOK, Request
<1>9. ASSUME NEW r \in Row, Type(r) PROVE TypeOK'
    BY <1>9 DEF Type, probing, TypeOK
<1>10. ASSUME NEW r \in Row, SaveKey(r) PROVE TypeOK'
    BY <1>8, <1>10 DEF SaveKey, probing, TypeOK
<1>11. ASSUME NEW r \in Row, DeleteKey(r) PROVE TypeOK'
    BY <1>8, <1>11 DEF DeleteKey, probing, row, TypeOK
<1>12. ASSUME NEW x \in Extra, AddAnother(x) PROVE TypeOK'
    <2>1. rows' \in {Base \cup y : y \in SUBSET Extra}
        <3>1. rows # {} /\ rows' = rows \cup {x}
            BY <1>12 DEF AddAnother, CanAdd, Shown, Fresh
        <3>2. PICK y \in SUBSET Extra : rows = Base \cup y
            BY <3>1 DEF TypeOK
        <3>3. rows' = Base \cup (y \cup {x}) /\ y \cup {x} \in SUBSET Extra
            BY <3>1, <3>2
        <3>. QED
            BY <3>3
    <2>. QED
        BY <1>12, <2>1 DEF AddAnother, Fresh, probing, TypeOK
<1>13. ASSUME NEW i \in Slot, Refused(i) PROVE TypeOK'
    <2>1. requests' \in [Slot -> Request \cup {None}]
        BY <1>13 DEF Refused, TypeOK, Request
    <2>. QED
        BY <1>13, <2>1 DEF Refused, probing, row, TypeOK
<1>14. ASSUME NEW i \in Slot, SecretsPut(i) PROVE TypeOK'
    <2>1. requests' \in [Slot -> Request \cup {None}]
        BY <1>14 DEF SecretsPut, TypeOK, Request
    <2>. QED
        BY <1>14, <2>1, RequestType DEF SecretsPut, probing, row, TypeOK
<1>15. ASSUME NEW i \in Slot, SecretsDelete(i) PROVE TypeOK'
    <2>1. requests' \in [Slot -> Request \cup {None}]
        BY <1>15 DEF SecretsDelete, TypeOK, Request
    <2>. QED
        BY <1>15, <2>1 DEF SecretsDelete, probing, row, TypeOK
<1>16. ASSUME NEW i \in Slot, SaveDone(i) PROVE TypeOK'
    BY <1>16, RequestType DEF SaveDone, Answered, UpdateState, probing, TypeOK
<1>17. ASSUME NEW i \in Slot, DeleteDone(i) PROVE TypeOK'
    <2>1. rows' \in {{}} \cup {Base \cup x : x \in SUBSET Extra}
        <3>1. rows' = rows \ (Extra \cap {requests[i].row})
            BY <1>17 DEF DeleteDone
        <3>2. CASE rows = {}
            BY <3>1, <3>2
        <3>3. ASSUME NEW x \in SUBSET Extra, rows = Base \cup x
              PROVE  rows' = Base \cup (x \ {requests[i].row})
            BY <3>1, <3>3 DEF Base
        <3>. QED
            BY <3>2, <3>3 DEF TypeOK
    <2>2. requests' \in [Slot -> Request \cup {None}]
        BY <1>17 DEF DeleteDone, Answered, TypeOK
    <2>. QED
        BY <1>17, <2>1, <2>2, RequestType
        DEF DeleteDone, Answered, probing, TypeOK
<1>18. ASSUME NEW i \in Slot, RequestFailed(i) PROVE TypeOK'
    BY <1>18, RequestType DEF RequestFailed, Answered, UpdateState, probing, TypeOK
<1>. QED
    BY <1>1, <1>2, <1>3, <1>4, <1>5, <1>6, <1>7, <1>9, <1>10, <1>11, <1>12,
       <1>13, <1>14, <1>15, <1>16, <1>17, <1>18
    DEF Next, Handled, Answer

\* Every variable keeps to its type, for any rows, keys and requests.
THEOREM KeyTypeOK == Spec => []TypeOK
BY InitType, NextType, PTL DEF Spec

----------------------------------------------------------------------------
\* A row that is saving

\* No step leaves a row saving without a save in flight.
LEMMA SavingStep == SavingInv /\ [Next]_vars => SavingInv'
<1>. SUFFICES ASSUME SavingInv, [Next]_vars PROVE SavingInv'
    OBVIOUS
<1>. TypeOK /\ GoneIsQuiet /\ SavingIsReal /\ TypeOK'
    BY NextType DEF SavingInv
<1>. /\ rows \subseteq Row /\ rows' \subseteq Row
     /\ state \in [Row -> {"quiet", "saving", "error"}]
     /\ requests \in [Slot -> Request \cup {None}]
    BY RowAssumption DEF TypeOK, Base
<1>. DEFINE Waits(r) == \E i \in Slot : requests[i] # None /\ requests[i].row = r
                                        /\ requests[i].op = "save"
<1>. DEFINE Goal == /\ \A r \in Row \ rows' : state'[r] = "quiet"
                    /\ \A r \in Row : state'[r] = "saving" => Waits(r)'
<1>. SUFFICES Goal
    BY DEF SavingInv, GoneIsQuiet, SavingIsReal
<1>0. \A r \in Row : state[r] = "saving" => r \in rows /\ Waits(r)
    BY DEF GoneIsQuiet, SavingIsReal
\* Steps that leave the requests and the states, and drop no row.
<1>1. ASSUME UNCHANGED <<requests, state>>, rows \subseteq rows'
      PROVE  Goal
    BY <1>0, <1>1 DEF GoneIsQuiet
\* A request is sent.
<1>2. ASSUME NEW op \in {"save", "delete"}, NEW q \in Row, Ask(op, q)
      PROVE  /\ \A r \in Row : Waits(r) => Waits(r)'
             /\ op = "save" => Waits(q)'
    <2>1. PICK i \in Slot :
            /\ requests[i] = None
            /\ requests' = [requests EXCEPT ![i] = [op |-> op, row |-> q, at |-> "sent"]]
        BY <1>2 DEF Ask
    <2>2. requests'[i] = [op |-> op, row |-> q, at |-> "sent"] /\ requests'[i] # None
        BY <2>1, NoneAssumption
    <2>3. \A j \in Slot : requests[j] # None => requests'[j] = requests[j]
        BY <2>1
    <2>. QED
        BY <2>2, <2>3
\* The server handles a request: who waits goes on waiting.
<1>3. ASSUME NEW i \in Slot, NEW at \in {"sent", "ok", "failed"},
             requests[i] # None, requests' = [requests EXCEPT ![i].at = at],
             UNCHANGED row
      PROVE  Goal
    <2>1. requests'[i] = [requests[i] EXCEPT !.at = at] /\ requests[i] \in Request
        BY <1>3
    <2>2. /\ requests'[i] # None
          /\ requests'[i].row = requests[i].row /\ requests'[i].op = requests[i].op
        BY <2>1, NoneAssumption DEF Request
    <2>3. \A j \in Slot \ {i} : requests'[j] = requests[j]
        BY <1>3
    <2>4. \A r \in Row : Waits(r) => Waits(r)'
        BY <2>2, <2>3
    <2>. QED
        BY <1>0, <1>3, <2>4 DEF GoneIsQuiet, row
\* An answer: the row it is for is not saving afterwards.
<1>4. ASSUME NEW i \in Slot, requests[i] # None,
             requests' = [requests EXCEPT ![i] = None]
      PROVE  \A r \in Row \ {requests[i].row} : Waits(r) => Waits(r)'
    BY <1>4
<1>5. CASE UNCHANGED vars
    BY <1>1, <1>5 DEF vars, row
<1>6. CASE ModelsArrive \/ Open \/ Close \/ SecretsList \/ Probed \/ ProbeFailed
    BY <1>1, <1>6
    DEF ModelsArrive, Open, Close, SecretsList, Probed, ProbeFailed, Fresh, row
<1>7. ASSUME NEW r \in Row, Type(r) PROVE Goal
    BY <1>1, <1>7 DEF Type
<1>8. ASSUME NEW q \in Row, SaveKey(q) PROVE Goal
    <2>1. q \in rows /\ rows' = rows /\ state' = [state EXCEPT ![q] = "saving"]
        BY <1>8 DEF SaveKey, Shown
    <2>2. \A r \in Row : state'[r] = "saving" => Waits(r)'
        BY <1>0, <1>2, <1>8, <2>1 DEF SaveKey
    <2>. QED
        BY <2>1, <2>2 DEF GoneIsQuiet
<1>9. ASSUME NEW q \in Row, DeleteKey(q) PROVE Goal
    <2>1. UNCHANGED row /\ \A r \in Row : Waits(r) => Waits(r)'
        BY <1>2, <1>9 DEF DeleteKey
    <2>. QED
        BY <1>0, <2>1 DEF GoneIsQuiet, row
<1>10. ASSUME NEW x \in Extra, AddAnother(x) PROVE Goal
    BY <1>1, <1>10 DEF AddAnother, Fresh
<1>11. ASSUME NEW i \in Slot, Handled(i) PROVE Goal
    <2>1. requests[i] # None /\ UNCHANGED row
        BY <1>11 DEF Handled, Refused, SecretsPut, SecretsDelete
    <2>2. \E at \in {"sent", "ok", "failed"} :
             requests' = [requests EXCEPT ![i].at = at]
        BY <1>11 DEF Handled, Refused, SecretsPut, SecretsDelete
    <2>. QED
        BY <1>3, <2>1, <2>2
<1>12. ASSUME NEW i \in Slot, Answer(i) PROVE Goal
    <2>. DEFINE q == requests[i].row
    <2>1. /\ requests[i] # None /\ q \in Row
          /\ requests' = [requests EXCEPT ![i] = None]
        BY <1>12, RequestType
        DEF Answer, SaveDone, DeleteDone, RequestFailed, Answered
    <2>2. /\ \A r \in Row \ {q} : state'[r] = state[r] /\ (r \in rows' <=> r \in rows)
          /\ q \in rows' => q \in rows
          /\ state'[q] # "saving"
          /\ q \notin rows' => state'[q] = "quiet"
        <3>1. CASE SaveDone(i)
            BY <2>1, <3>1 DEF SaveDone, UpdateState, GoneIsQuiet
        <3>2. CASE DeleteDone(i)
            BY <2>1, <3>2 DEF DeleteDone
        <3>3. CASE RequestFailed(i)
            BY <2>1, <3>3 DEF RequestFailed, UpdateState, GoneIsQuiet
        <3>. QED
            BY <1>12, <3>1, <3>2, <3>3 DEF Answer
    <2>3. \A r \in Row : state'[r] = "saving" => Waits(r)'
        BY <1>0, <1>4, <2>1, <2>2
    <2>. QED
        BY <2>2, <2>3 DEF GoneIsQuiet
<1>. QED
    BY <1>5, <1>6, <1>7, <1>8, <1>9, <1>10, <1>11, <1>12 DEF Next

\* A row that says "Saving..." waits for an answer that is still to come.
THEOREM KeySavingIsReal == Spec => []SavingIsReal
<1>1. Init => SavingInv
    BY InitType DEF Init, SavingInv, GoneIsQuiet, SavingIsReal
<1>. QED
    BY <1>1, SavingStep, PTL DEF Spec, SavingInv

----------------------------------------------------------------------------
\* A key that is stored

\* A name keeps what `known' says of it in a step that does not touch its
\* requests, the value stored under it, or the list.
LEMMA ToldKept ==
    ASSUME NEW k, Told(k),
           \A i \in Slot : OfKey(i, k)' <=> OfKey(i, k),
           \A i \in Slot : OfKey(i, k) => requests'[i] = requests[i],
           k \in vault' <=> k \in vault,
           probe' = probe, listed' = listed,
           \A i \in Slot : OfKey(i, k) /\ requests[i].row \in rows
                            => requests[i].row \in rows',
           SavedRow(k) => SavedRow(k)'
    PROVE  Told(k)'
BY DEF Told, Pending, OfKey

\* No step makes the rows of a known name deny what the vault holds.
LEMMA KnownStep == KnownInv /\ [Next]_vars => KnownInv'
<1>. SUFFICES ASSUME KnownInv, [Next]_vars PROVE KnownInv'
    OBVIOUS
<1>. TypeOK /\ TypeOK'
    BY NextType DEF KnownInv
<1>. /\ \A k \in known : Told(k)
     /\ requests \in [Slot -> Request \cup {None}]
     /\ rows \subseteq Row /\ Base \subseteq Row
     /\ isStored \in [Row -> BOOLEAN] /\ savedValue \in [Row -> BOOLEAN]
     /\ known \subseteq BaseKey
    BY RowAssumption DEF KnownInv, TypeOK, Base
<1>. DEFINE Goal == \A k \in known' : Told(k)'
<1>. SUFFICES Goal
    BY DEF KnownInv
\* Rows come, or only what the user sees changes.
<1>1. ASSUME UNCHANGED <<vault, probe, listed, isStored, savedValue, requests>>,
             rows \subseteq rows', known' \subseteq known
      PROVE  Goal
    <2>. SUFFICES ASSUME NEW k \in known' PROVE Told(k)'
        OBVIOUS
    <2>1. SavedRow(k) => SavedRow(k)'
        BY <1>1 DEF SavedRow, IsRowSaved
    <2>. QED
        BY <1>1, <2>1, ToldKept DEF OfKey
\* The list is asked for, or its answer is of no use.
<1>2. CASE Open
    <2>. SUFFICES ASSUME NEW k \in known' PROVE Told(k)'
        OBVIOUS
    <2>1. \A i \in Slot : ~OfKey(i, k)'
        BY <1>2 DEF Open, Pending, OfKey
    <2>2. probe' = "asked"
        BY <1>2 DEF Open
    <2>. QED
        BY <2>1, <2>2 DEF Told, Pending, OfKey
<1>3. ASSUME known' \subseteq known, probe # "idle" => known' = {},
             UNCHANGED <<vault, row, requests>>,
             probe' = "idle"
      PROVE  Goal
    <2>. SUFFICES ASSUME NEW k \in known' PROVE Told(k)'
        OBVIOUS
    <2>1. probe = "idle"
        BY <1>3
    <2>2. SavedRow(k)' <=> SavedRow(k)
        BY <1>3 DEF SavedRow, IsRowSaved, row
    <2>. QED
        BY <1>3, <2>1, <2>2 DEF Told, Pending, OfKey, row
<1>4. CASE SecretsList
    <2>. SUFFICES ASSUME NEW k \in known' PROVE Told(k)'
        OBVIOUS
    <2>1. \A i \in Slot : ~OfKey(i, k)'
        BY <1>4 DEF SecretsList, Told, Pending, OfKey
    <2>. QED
        BY <1>4, <2>1 DEF SecretsList, Told, Pending, OfKey
\* The list is taken in: a row with the name is there, as a row of a model has.
<1>5. CASE Probed
    <2>. SUFFICES ASSUME NEW k \in known' PROVE Told(k)'
        OBVIOUS
    <2>1. k \in known /\ rows # {} /\ rows' = rows
        BY <1>5 DEF Probed
    <2>2. \A i \in Slot : ~OfKey(i, k)'
        BY <1>5, <2>1 DEF Probed, Told, Pending, OfKey
    <2>3. PICK q \in Base : keyName[q] = k
        BY <2>1 DEF BaseKey
    <2>4. q \in rows
        BY <2>1, <2>3 DEF TypeOK
    <2>5. k \in vault' => k \in listed
        BY <1>5, <2>1 DEF Probed, Told
    <2>6. k \in vault' => isStored'[q]
        BY <1>5, <2>3, <2>4, <2>5 DEF Probed
    <2>7. k \in vault' => SavedRow(k)'
        BY <2>1, <2>3, <2>4, <2>6 DEF SavedRow, IsRowSaved
    <2>. QED
        BY <1>5, <2>2, <2>7 DEF Probed, Told, Pending, OfKey
\* A request is sent.
<1>6. ASSUME NEW op \in {"save", "delete"}, NEW r \in rows, Ask(op, r),
             UNCHANGED <<vault, probe, listed, rows, isStored, savedValue>>
      PROVE  Goal
    <2>. SUFFICES ASSUME NEW k \in known' PROVE Told(k)'
        OBVIOUS
    <2>1. PICK i \in Slot :
            /\ requests[i] = None
            /\ requests' = [requests EXCEPT ![i] = [op |-> op, row |-> r, at |-> "sent"]]
        BY <1>6 DEF Ask
    <2>2. requests'[i] = [op |-> op, row |-> r, at |-> "sent"] /\ requests'[i] # None
        BY <2>1, NoneAssumption
    <2>3. \A j \in Slot \ {i} : requests'[j] = requests[j]
        BY <2>1
    <2>4. k \in known /\ SavedRow(k)' = SavedRow(k)
        BY <1>6 DEF Ask, SavedRow, IsRowSaved
    <2>5. CASE k # keyName[r]
        <3>1. ~OfKey(i, k) /\ ~OfKey(i, k)'
            BY <2>1, <2>2, <2>5 DEF OfKey
        <3>. QED
            BY <1>6, <2>3, <2>4, <3>1, ToldKept DEF OfKey
    <2>6. CASE k = keyName[r]
        <3>1. ~Pending(k) /\ probe = "idle"
            BY <1>6, <2>6 DEF Ask
        <3>2. \A j \in Slot \ {i} : ~OfKey(j, k)'
            BY <2>3, <3>1 DEF Pending, OfKey
        <3>3. k \in vault => SavedRow(k)
            BY <2>4, <3>1 DEF Told, Pending, OfKey
        <3>. QED
            BY <1>6, <2>2, <2>4, <3>1, <3>2, <3>3 DEF Told
    <2>. QED
        BY <2>5, <2>6
\* The server handles a request: only its own name can change, and only if no
\* other request of that name is in flight.
<1>7. ASSUME NEW i \in Slot, NEW at \in {"ok", "failed"},
             requests[i] # None, requests[i].at = "sent",
             requests' = [requests EXCEPT ![i].at = at],
             \A k \in Key \ {keyName[requests[i].row]} : k \in vault' <=> k \in vault,
             requests[i].op = "delete" /\ at = "ok"
                => keyName[requests[i].row] \notin vault',
             UNCHANGED <<probing, row, known>>
      PROVE  Goal
    <2>. SUFFICES ASSUME NEW k \in known PROVE Told(k)'
        BY <1>7
    <2>1. requests'[i] = [requests[i] EXCEPT !.at = at] /\ requests[i] \in Request
        BY <1>7
    <2>2. /\ requests'[i] # None /\ requests'[i].at = at
          /\ requests'[i].row = requests[i].row /\ requests'[i].op = requests[i].op
        BY <2>1, NoneAssumption DEF Request
    <2>3. \A j \in Slot \ {i} : requests'[j] = requests[j]
        BY <1>7
    <2>4. k \in Key /\ SavedRow(k)' = SavedRow(k)
        BY <1>7, RowAssumption DEF SavedRow, IsRowSaved, row, BaseKey, Base
    <2>5. \A j \in Slot : OfKey(j, k)' <=> OfKey(j, k)
        BY <1>7, <2>2, <2>3 DEF OfKey
    <2>6. CASE k # keyName[requests[i].row]
        BY <1>7, <2>3, <2>4, <2>5, <2>6, ToldKept DEF OfKey, probing, row
    <2>7. CASE k = keyName[requests[i].row]
        <3>1. OfKey(i, k) /\ OfKey(i, k)'
            BY <1>7, <2>5, <2>7 DEF OfKey
        <3>2. \A j \in Slot : OfKey(j, k)' => j = i
            BY <2>5, <3>1 DEF Told
        <3>3. probe' = "idle"
            BY <1>7, <3>1 DEF Told, Pending, OfKey, probing, TypeOK
        <3>4. requests'[i].row \in rows'
            BY <1>7, <2>2, <3>1 DEF Told, row
        <3>5. requests'[i].at # "sent"
            BY <2>2
        <3>6. requests'[i].op = "delete" /\ requests'[i].at = "ok" => k \notin vault'
            BY <1>7, <2>2, <2>7
        <3>. QED
            BY <3>1, <3>2, <3>3, <3>4, <3>5, <3>6 DEF Told
    <2>. QED
        BY <2>6, <2>7
\* An answer: of a name that is still known, the request it answers was the
\* only one.
<1>8. ASSUME NEW i \in Slot, NEW k \in known, requests[i] # None,
             requests' = [requests EXCEPT ![i] = None],
             UNCHANGED <<vault, probing>>
      PROVE  /\ k # keyName[requests[i].row] =>
                  ((\A r \in Row \ {requests[i].row} :
                       /\ r \in rows' <=> r \in rows
                       /\ IsRowSaved(r)' <=> IsRowSaved(r)) => Told(k)')
             /\ k = keyName[requests[i].row] =>
                  ((k \in vault => SavedRow(k)') => Told(k)')
    <2>1. requests'[i] = None /\ \A j \in Slot \ {i} : requests'[j] = requests[j]
        BY <1>8
    <2>2. ASSUME k # keyName[requests[i].row],
                 \A r \in Row \ {requests[i].row} :
                    /\ r \in rows' <=> r \in rows
                    /\ IsRowSaved(r)' <=> IsRowSaved(r)
          PROVE  Told(k)'
        <3>1. SavedRow(k) => SavedRow(k)'
            BY <2>2 DEF SavedRow
        <3>2. \A j \in Slot : (OfKey(j, k)' <=> OfKey(j, k))
            BY <2>1, <2>2 DEF OfKey
        <3>3. \A j \in Slot : OfKey(j, k) /\ requests[j].row \in rows
                                 => requests[j].row \in rows'
            BY <2>2 DEF OfKey
        <3>. QED
            BY <1>8, <2>1, <2>2, <3>1, <3>2, <3>3, ToldKept DEF OfKey, probing
    <2>3. ASSUME k = keyName[requests[i].row], k \in vault => SavedRow(k)'
          PROVE  Told(k)'
        <3>1. OfKey(i, k)
            BY <1>8, <2>3 DEF OfKey
        <3>2. \A j \in Slot : ~OfKey(j, k)'
            BY <2>1, <3>1 DEF Told, OfKey
        <3>3. probe' = "idle"
            BY <1>8, <3>1 DEF Told, Pending, OfKey, probing, TypeOK
        <3>. QED
            BY <1>8, <2>3, <3>2, <3>3 DEF Told, Pending
    <2>. QED
        BY <2>2, <2>3
<1>9. ASSUME NEW i \in Slot, SaveDone(i) PROVE Goal
    <2>. DEFINE r == requests[i].row
    <2>1. /\ requests[i] # None /\ requests' = [requests EXCEPT ![i] = None]
          /\ UNCHANGED <<vault, probing, known, rows, isStored>>
          /\ savedValue' = [savedValue EXCEPT ![r] = @ \/ r \in rows]
          /\ r \in Row
        BY <1>9, RequestType DEF SaveDone, Answered
    <2>. SUFFICES ASSUME NEW k \in known PROVE Told(k)'
        BY <2>1
    <2>2. \A q \in Row \ {r} : IsRowSaved(q)' <=> IsRowSaved(q)
        BY <2>1 DEF IsRowSaved
    <2>3. ASSUME k = keyName[r] PROVE SavedRow(k)'
        <3>1. r \in rows
            BY <2>1, <2>3 DEF Told, OfKey
        <3>2. savedValue'[r]
            BY <2>1, <3>1
        <3>. QED
            BY <2>1, <2>3, <3>1, <3>2 DEF SavedRow, IsRowSaved
    <2>. QED
        BY <1>8, <2>1, <2>2, <2>3
<1>10. ASSUME NEW i \in Slot, DeleteDone(i) PROVE Goal
    <2>. DEFINE r == requests[i].row
    <2>1. /\ requests[i] # None /\ requests' = [requests EXCEPT ![i] = None]
          /\ requests[i].op = "delete" /\ requests[i].at = "ok"
          /\ UNCHANGED <<vault, probing, known>>
          /\ rows' = rows \ (Extra \cap {r})
          /\ isStored' = [isStored EXCEPT ![r] = @ /\ r \notin Extra]
          /\ savedValue' = [savedValue EXCEPT ![r] = FALSE]
          /\ r \in Row
        BY <1>10, RequestType DEF DeleteDone, Answered
    <2>. SUFFICES ASSUME NEW k \in known PROVE Told(k)'
        BY <2>1
    <2>2. \A q \in Row \ {r} : /\ q \in rows' <=> q \in rows
                               /\ IsRowSaved(q)' <=> IsRowSaved(q)
        BY <2>1 DEF IsRowSaved
    <2>3. k = keyName[r] => k \notin vault
        BY <2>1 DEF Told, OfKey
    <2>. QED
        BY <1>8, <2>1, <2>2, <2>3
<1>11. ASSUME NEW i \in Slot, RequestFailed(i) PROVE Goal
    <2>1. /\ requests[i] # None /\ requests' = [requests EXCEPT ![i] = None]
          /\ UNCHANGED <<vault, probing, rows, isStored, savedValue>>
          /\ known' = known \ {keyName[requests[i].row]}
        BY <1>11 DEF RequestFailed, Answered
    <2>2. \A q \in Row : IsRowSaved(q)' <=> IsRowSaved(q)
        BY <2>1 DEF IsRowSaved
    <2>. QED
        BY <1>8, <2>1, <2>2
<1>12. CASE UNCHANGED vars
    BY <1>1, <1>12 DEF vars, probing, row
<1>13. CASE ModelsArrive
    BY <1>1, <1>13 DEF ModelsArrive, Fresh, probing
<1>14. CASE Close \/ ProbeFailed
    BY <1>3, <1>14 DEF Close, ProbeFailed, row
<1>15. ASSUME NEW r \in Row, Type(r) PROVE Goal
    BY <1>1, <1>15 DEF Type, probing
<1>16. ASSUME NEW r \in Row, SaveKey(r) \/ DeleteKey(r) PROVE Goal
    BY <1>6, <1>16 DEF SaveKey, DeleteKey, CanDelete, Shown, probing, row
<1>17. ASSUME NEW x \in Extra, AddAnother(x) PROVE Goal
    BY <1>1, <1>17 DEF AddAnother, Fresh, probing
<1>18. ASSUME NEW i \in Slot, Handled(i) PROVE Goal
    <2>1. CASE Refused(i)
        BY <1>7, <2>1 DEF Refused
    <2>2. CASE SecretsPut(i)
        BY <1>7, <2>2 DEF SecretsPut
    <2>3. CASE SecretsDelete(i)
        BY <1>7, <2>3 DEF SecretsDelete
    <2>. QED
        BY <1>18, <2>1, <2>2, <2>3 DEF Handled
<1>. QED
    BY <1>2, <1>4, <1>5, <1>9, <1>10, <1>11, <1>12, <1>13, <1>14, <1>15, <1>16,
       <1>17, <1>18
    DEF Next, Answer

\* A stored key has a row that offers to delete it, unless a request of that
\* name failed or overlapped with another or with the list.
THEOREM KeyStoredKeyIsShown == Spec => []StoredKeyIsShown
<1>1. Init => KnownInv
    BY InitType DEF Init, KnownInv
<1>2. KnownInv => StoredKeyIsShown
    BY DEF KnownInv, StoredKeyIsShown, Told, Pending, OfKey, SavedRow
<1>. QED
    BY <1>1, <1>2, KnownStep, PTL DEF Spec

----------------------------------------------------------------------------
\* A draft

\* What the user typed stays until the user types again or a delete of that
\* row succeeds.
THEOREM KeyDraftKept == Spec => DraftKept
<1>. DEFINE Kept == \A r \in rows \cap rows' :
          draft[r] /\ ~draft'[r] =>
              \/ UNCHANGED <<isStored, savedValue, state, requests, rows>>
              \/ \E i \in Slot : /\ Answered(i, "delete", "ok")
                                 /\ requests[i].row = r
<1>1. TypeOK /\ [Next]_vars => Kept
    <2>. SUFFICES ASSUME TypeOK, [Next]_vars, NEW r \in rows \cap rows',
                         draft[r], ~draft'[r]
                  PROVE  \/ UNCHANGED <<isStored, savedValue, state, requests, rows>>
                         \/ \E i \in Slot : /\ Answered(i, "delete", "ok")
                                            /\ requests[i].row = r
        OBVIOUS
    <2>1. draft' # draft
        OBVIOUS
    <2>2. ASSUME NEW q \in Row, Type(q)
          PROVE  UNCHANGED <<isStored, savedValue, state, requests, rows>>
        BY <2>2 DEF Type
    <2>3. ASSUME NEW i \in Slot, DeleteDone(i)
          PROVE  Answered(i, "delete", "ok") /\ requests[i].row = r
        BY <2>3, RowAssumption DEF DeleteDone, TypeOK, Base
    <2>. QED
        BY <2>1, <2>2, <2>3
        DEF Next, ModelsArrive, Open, Close, SecretsList, Probed, ProbeFailed,
            SaveKey, DeleteKey, AddAnother, Fresh, Handled, Refused, SecretsPut,
            SecretsDelete, Answer, SaveDone, RequestFailed, vars, row
<1>. QED
    BY <1>1, KeyTypeOK, PTL DEF Spec, DraftKept

=============================================================================
