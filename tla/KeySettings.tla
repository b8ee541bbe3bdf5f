----------------------------- MODULE KeySettings -----------------------------
(***************************************************************************)
(* The API-keys dialog, components/SettingsModal.tsx, for the rows of one  *)
(* provider (the rows of another never meet them), against the secrets     *)
(* routes of the server.  A step is one callback of the browser, or the    *)
(* server handling one request.  Requests go over connections of their     *)
(* own: they are handled, and answered, in any order.                      *)
(*                                                                         *)
(* The value of a key is left out: of a draft, whether there is one; of    *)
(* the vault, which names it holds.  The states "empty" and "saved" of a   *)
(* row, which nothing tells apart, are both "quiet".  What only changes    *)
(* how a row looks is left out: folding, showing the draft, the source of  *)
(* a key that GET /api/settings/state tells.                               *)
(***************************************************************************)
EXTENDS FiniteSets

CONSTANTS
    Row,        \* the rows there can be
    Extra,      \* those added by "Add another key"
    Key,        \* names in the vault
    keyName,    \* the name of each row
    parent,     \* the row, of a model, that an extra is added from
    None,       \* null
    Slot        \* requests that can be in flight

ASSUME RowAssumption ==
    /\ Extra \subseteq Row
    /\ keyName \in [Row -> Key]
    /\ parent \in [Extra -> Row \ Extra]
ASSUME NoneAssumption == None \notin [op : {"save", "delete"}, row : Row,
                                      at : {"sent", "ok", "failed"}]

VARIABLES
    vault,      \* the names stored on the server
    isOpen,     \* the dialog is open
    probe,      \* the request for the list of names: idle, asked or read
    listed,     \* the names read
    rows,       \* the rows there are
    isStored, savedValue, state, draft,   \* of each row
    requests,   \* PUTs and DELETEs in flight
    known       \* ghost: names of rows of models that the rows tell the truth
                \* about, as far as the last list and the requests since tell

row == <<rows, isStored, savedValue, state, draft>>
probing == <<probe, listed>>
vars == <<vault, isOpen, probing, row, requests, known>>

Base == Row \ Extra
BaseKey == {keyName[r] : r \in Base}
Request == [op : {"save", "delete"}, row : Row, at : {"sent", "ok", "failed"}]
Pending(k) == \E i \in Slot : requests[i] # None /\ keyName[requests[i].row] = k

IsRowSaved(r) == isStored[r] \/ savedValue[r]

\* A row that is not there has the values a new row gets.
Fresh(rs) == rows' = rows \cup rs /\ UNCHANGED <<isStored, savedValue, state, draft>>

Init ==
    /\ vault \in SUBSET Key
    /\ isOpen = FALSE
    /\ probe = "idle" /\ listed = {}
    /\ rows = {}
    /\ isStored = [r \in Row |-> FALSE]
    /\ savedValue = [r \in Row |-> FALSE]
    /\ state = [r \in Row |-> "quiet"]
    /\ draft = [r \in Row |-> FALSE]
    /\ requests = [i \in Slot |-> None]
    /\ known = {}

----------------------------------------------------------------------------
\* The dialog

\* The list of models is fetched once, when the page loads; the rows of the
\* models appear with it.
ModelsArrive ==
    /\ rows = {}
    /\ Fresh(Base)
    /\ UNCHANGED <<vault, isOpen, probing, requests, known>>

\* The stored names are fetched.
Open ==
    /\ ~isOpen
    /\ isOpen' = TRUE
    /\ probe' = "asked" /\ UNCHANGED listed
    /\ known' = {k \in BaseKey : ~Pending(k)}
    /\ UNCHANGED <<vault, row, requests>>

\* A bug: the effect has no cleanup, a probe outlives its dialog.
Close_KeepsProbe ==
    /\ isOpen
    /\ isOpen' = FALSE
    /\ known' = IF probe = "idle" THEN known ELSE {}
    /\ UNCHANGED <<vault, probing, row, requests>>

Close ==
    /\ isOpen
    /\ isOpen' = FALSE
    /\ probe' = "idle" /\ listed' = {}
    /\ known' = IF probe = "idle" THEN known ELSE {}
    /\ UNCHANGED <<vault, row, requests>>

\* The server reads the names.
SecretsList ==
    /\ probe = "asked"
    /\ probe' = "read" /\ listed' = vault
    /\ UNCHANGED <<vault, isOpen, row, requests, known>>

\* A bug: the rows are made anew.
Probed_Blank ==
    /\ probe = "read"
    /\ probe' = "idle" /\ listed' = {}
    /\ isStored' = [r \in Row |-> r \in rows /\ keyName[r] \in listed]
    /\ savedValue' = [r \in Row |-> FALSE]
    /\ draft' = [r \in Row |-> FALSE]
    /\ UNCHANGED <<vault, isOpen, rows, state, requests>>
    /\ known' = IF rows = {} THEN {} ELSE known

\* Every row there is by now takes what the list says of its name.  (The draft
\* and the state of a row are kept.)
Probed ==
    /\ probe = "read"
    /\ probe' = "idle" /\ listed' = {}
    /\ isStored' = [r \in Row |-> IF r \in rows THEN keyName[r] \in listed
                                  ELSE isStored[r]]
    /\ savedValue' = [r \in Row |-> r \notin rows /\ savedValue[r]]
    /\ UNCHANGED <<vault, isOpen, rows, state, draft, requests>>
    /\ known' = IF rows = {} THEN {} ELSE known

\* A failed probe is ignored.
ProbeFailed ==
    /\ probe # "idle"
    /\ probe' = "idle" /\ listed' = {}
    /\ known' = {}
    /\ UNCHANGED <<vault, isOpen, row, requests>>

----------------------------------------------------------------------------
\* The rows

Shown(r) == isOpen /\ r \in rows
CanDelete(r) == Shown(r) /\ IsRowSaved(r)
\* The button is there while the row of the model has no extra.
CanAdd(x) ==
    Shown(parent[x]) /\ \A e \in Extra \cap rows : parent[e] # parent[x]
CanSave(r) == draft[r] /\ state[r] # "saving"

Type(r) ==
    /\ Shown(r)
    /\ draft' = [draft EXCEPT ![r] = ~@]
    /\ UNCHANGED <<vault, isOpen, probing, rows, isStored, savedValue, state,
                   requests, known>>

\* A request is on its way.  If another of the same name is, or the list of
\* the names, their order is open.
Ask(op, r) ==
    /\ \E i \in Slot :
        /\ requests[i] = None
        /\ requests' = [requests EXCEPT ![i] = [op |-> op, row |-> r, at |-> "sent"]]
    /\ known' = IF Pending(keyName[r]) \/ probe # "idle"
                THEN known \ {keyName[r]} ELSE known

SaveKey(r) ==
    /\ Shown(r) /\ CanSave(r)
    /\ state' = [state EXCEPT ![r] = "saving"]
    /\ Ask("save", r)
    /\ UNCHANGED <<vault, isOpen, probing, rows, isStored, savedValue, draft>>

DeleteKey(r) ==
    /\ CanDelete(r)
    /\ Ask("delete", r)
    /\ UNCHANGED <<vault, isOpen, probing, row>>

\* The number the loop finds is always the first.
AddAnother(x) ==
    /\ CanAdd(x)
    /\ Fresh({x})
    /\ UNCHANGED <<vault, isOpen, probing, requests, known>>

----------------------------------------------------------------------------
\* Requests

\* The server refuses a request, or the connection breaks before it.
Refused(i) ==
    /\ requests[i] # None /\ requests[i].at = "sent"
    /\ requests' = [requests EXCEPT ![i].at = "failed"]
    /\ UNCHANGED <<vault, isOpen, probing, row, known>>

\* The answer may get lost.
SecretsPut(i) ==
    /\ requests[i] # None /\ requests[i].at = "sent" /\ requests[i].op = "save"
    /\ vault' = vault \cup {keyName[requests[i].row]}
    /\ \E at \in {"ok", "failed"} : requests' = [requests EXCEPT ![i].at = at]
    /\ UNCHANGED <<isOpen, probing, row, known>>

\* What is not there cannot be deleted.
SecretsDelete(i) ==
    /\ requests[i] # None /\ requests[i].at = "sent" /\ requests[i].op = "delete"
    /\ LET k == keyName[requests[i].row] IN
        /\ vault' = vault \ {k}
        /\ \E at \in IF k \in vault THEN {"ok", "failed"} ELSE {"failed"} :
              requests' = [requests EXCEPT ![i].at = at]
    /\ UNCHANGED <<isOpen, probing, row, known>>

Answered(i, op, at) ==
    /\ requests[i] # None /\ requests[i].op = op /\ requests[i].at = at
    /\ requests' = [requests EXCEPT ![i] = None]

\* updateRow: a row that is gone stays as it is.
UpdateState(r, s) == state' = IF r \in rows THEN [state EXCEPT ![r] = s] ELSE state

\* A bug: the row does not note that it has a value now.
SaveDone_Unnoted(i) ==
    /\ Answered(i, "save", "ok")
    /\ UpdateState(requests[i].row, "quiet")
    /\ UNCHANGED <<vault, isOpen, probing, rows, isStored, savedValue, draft, known>>

SaveDone(i) ==
    /\ Answered(i, "save", "ok")
    /\ LET r == requests[i].row IN
        /\ UpdateState(r, "quiet")
        /\ savedValue' = [savedValue EXCEPT ![r] = @ \/ r \in rows]
    /\ UNCHANGED <<vault, isOpen, probing, rows, isStored, draft, known>>

\* An extra row goes; another is emptied, but isStored is left as it was.
DeleteDone(i) ==
    /\ Answered(i, "delete", "ok")
    /\ LET r == requests[i].row IN
        /\ rows' = rows \ (Extra \cap {r})
        /\ isStored' = [isStored EXCEPT ![r] = @ /\ r \notin Extra]
        /\ state' = [state EXCEPT ![r] = "quiet"]
        /\ draft' = [draft EXCEPT ![r] = FALSE]
        /\ savedValue' = [savedValue EXCEPT ![r] = FALSE]
    /\ UNCHANGED <<vault, isOpen, probing, known>>

\* A bug: no catch block.
RequestFailed_Uncaught(i) ==
    /\ Answered(i, "save", "failed") \/ Answered(i, "delete", "failed")
    /\ known' = known \ {keyName[requests[i].row]}
    /\ UNCHANGED <<vault, isOpen, probing, row>>

RequestFailed(i) ==
    /\ Answered(i, "save", "failed") \/ Answered(i, "delete", "failed")
    /\ UpdateState(requests[i].row, "error")
    /\ known' = known \ {keyName[requests[i].row]}
    /\ UNCHANGED <<vault, isOpen, probing, rows, isStored, savedValue, draft>>

----------------------------------------------------------------------------

Handled(i) == Refused(i) \/ SecretsPut(i) \/ SecretsDelete(i)
Answer(i) == SaveDone(i) \/ DeleteDone(i) \/ RequestFailed(i)

Next ==
    \/ ModelsArrive \/ Open \/ Close \/ SecretsList \/ Probed \/ ProbeFailed
    \/ \E r \in Row : Type(r) \/ SaveKey(r) \/ DeleteKey(r)
    \/ \E x \in Extra : AddAnother(x)
    \/ \E i \in Slot : Handled(i) \/ Answer(i)

Spec == Init /\ [][Next]_vars

----------------------------------------------------------------------------
\* Properties

\* Every variable keeps to its type, a row of a model is there for good, and
\* only an open dialog has a probe
\* (SettingsModal.tsx:31-60, 108-140).
TypeOK ==
    /\ vault \subseteq Key /\ known \subseteq BaseKey
    /\ isOpen \in BOOLEAN
    /\ probe \in {"idle", "asked", "read"} /\ listed \subseteq Key
    /\ rows \in {{}} \cup {Base \cup x : x \in SUBSET Extra}
    /\ isStored \in [Row -> BOOLEAN] /\ savedValue \in [Row -> BOOLEAN]
    /\ state \in [Row -> {"quiet", "saving", "error"}]
    /\ draft \in [Row -> BOOLEAN]
    /\ requests \in [Slot -> Request \cup {None}]
    /\ ~isOpen => probe = "idle"

\* A row that says "Saving..." waits for an answer that is still to come,
\* whatever was deleted, added or probed since the click
\* (SettingsModal.tsx:318-375).
SavingIsReal ==
    \A r \in rows : state[r] = "saving" =>
        \E i \in Slot : requests[i] # None /\ requests[i].row = r
                        /\ requests[i].op = "save"

\* A stored key has a row that offers to delete it, once the list of the
\* names was taken in with the rows there, unless a request of that name
\* failed or overlapped with another or with the list
\* (SettingsModal.tsx:213-251, 313-375).
StoredKeyIsShown ==
    \A r \in Base : LET k == keyName[r] IN
        k \in vault \cap known /\ probe = "idle" /\ ~Pending(k) =>
            \E q \in rows : keyName[q] = k /\ IsRowSaved(q)

\* What the user typed in a row stays there until the user types again or a
\* delete of that row succeeds: a probe, a save or the answer to a save of
\* another row leave it (SettingsModal.tsx:213-251, 313-375).
DraftKept ==
    [][\A r \in rows \cap rows' :
          draft[r] /\ ~draft'[r] =>
              \/ UNCHANGED <<isStored, savedValue, state, requests, rows>>
              \/ \E i \in Slot : /\ Answered(i, "delete", "ok")
                                 /\ requests[i].row = r]_vars

=============================================================================
