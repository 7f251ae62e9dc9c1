----------------------------- MODULE Endpoints -----------------------------
(***************************************************************************)
(* The endpoint API: concurrent POST, PATCH and DELETE requests.  PATCH    *)
(* and DELETE read the row without locking it, assign to the object in the *)
(* session, and commit; SQLAlchemy then updates the columns whose value    *)
(* differs from the one that was read, and those only.  A POST or PATCH    *)
(* answers with the row as it reads it again after its commit, and other   *)
(* requests may commit, and be answered, before that answer is sent.       *)
(***************************************************************************)
EXTENDS EndpointTable

CONSTANTS
  Requests,   \* HTTP requests
  Tenants,    \* tenants
  TenantOf    \* the tenant of an endpoint, also while it is only an id

ASSUME TenantAssumption == TenantOf \in [Endpoints -> Tenants]

VARIABLES
  request,    \* what each request asks for, or Null before it arrives
  pc,         \* how far it has come
  loaded,     \* the row it has read
  answer      \* the row its response is made from

vars == <<endpoint, request, pc, loaded, answer>>

\* A request names an endpoint; a field is Null when the body leaves it out.
\* A POST names both fields and a PATCH at least one.
Bodies ==
  LET all == [op : {"create", "update", "delete"}, tenant : Tenants, id : Endpoints,
              url : Urls \cup {Null}, event_types : TypeLists \cup {Null}]
      wellFormed(b) ==
        /\ b.op = "create" => b.url # Null /\ b.event_types # Null
                                /\ b.tenant = TenantOf[b.id]
        /\ b.op = "update" => b.url # Null \/ b.event_types # Null
        /\ b.op = "delete" => b.url = Null /\ b.event_types = Null
  IN  {b \in all : wellFormed(b)}

ASSUME RequestAssumption == Null \notin Bodies

Over == {"replied", "missing", "failed"}

TypeOK ==
  /\ TableOK
  /\ request \in [Requests -> Bodies \cup {Null}]
  /\ pc \in [Requests -> {"new", "started", "loaded", "saved", "answering"} \cup Over]
  /\ loaded \in [Requests -> Columns \cup {Null}]
  /\ answer \in [Requests -> Columns \cup {Null}]

Init ==
  /\ TableInit
  /\ request = [r \in Requests |-> Null]
  /\ pc = [r \in Requests |-> "new"]
  /\ loaded = [r \in Requests |-> Null]
  /\ answer = [r \in Requests |-> Null]

Goto(r, from, to) == pc[r] = from /\ pc' = [pc EXCEPT ![r] = to]

\* A new endpoint's id is a fresh uuid.
Arrive(r, b) ==
  /\ Goto(r, "new", "started")
  /\ b.op = "create" =>
       /\ endpoint[b.id] = Null
       /\ \A q \in Requests : request[q] # Null => request[q].id # b.id
  /\ request' = [request EXCEPT ![r] = b]
  /\ UNCHANGED <<endpoint, loaded, answer>>

\* create_endpoint: insert and commit.
Create(r) ==
  /\ Goto(r, "started", "saved")
  /\ request[r].op = "create"
  /\ Insert(request[r].id, request[r].url, request[r].event_types)
  /\ UNCHANGED <<request, loaded, answer>>

\* The row get_active_endpoint_by_id_for_tenant returns.
Visible(b) == Active(b.id) /\ TenantOf[b.id] = b.tenant

Load(r) ==
  /\ Goto(r, "started", "loaded")
  /\ request[r].op # "create"
  /\ Visible(request[r])
  /\ loaded' = [loaded EXCEPT ![r] = endpoint[request[r].id]]
  /\ UNCHANGED <<endpoint, request, answer>>

\* NotFoundError.
Missing(r) ==
  /\ Goto(r, "started", "missing")
  /\ request[r].op # "create"
  /\ ~Visible(request[r])
  /\ UNCHANGED <<endpoint, request, loaded, answer>>

\* Mutant: a field the body leaves out is assigned as well.
AssignedMissing(r) == {c \in {"url", "event_types"} : request[r][c] # loaded[r][c]}

\* The columns of the UPDATE: those assigned a value that was not there.
Assigned(r) ==
  {c \in {"url", "event_types"} : request[r][c] \notin {Null, loaded[r][c]}}

\* A row with those columns assigned.
Updated(r, old) == [c \in DOMAIN old |-> IF c \in Assigned(r) THEN request[r][c] ELSE old[c]]

\* Mutant: the UPDATE writes the whole row, as it was read.
SavedWhole(r) == Updated(r, loaded[r])
Saved(r) == Updated(r, endpoint[request[r].id])

\* update_endpoint: the commit.
Save(r) ==
  /\ Goto(r, "loaded", "saved")
  /\ request[r].op = "update"
  /\ endpoint' = [endpoint EXCEPT ![request[r].id] = Saved(r)]
  /\ UNCHANGED <<request, loaded, answer>>

\* delete_endpoint: is_active = False, commit.  There is nothing to read again.
Delete(r) ==
  /\ Goto(r, "loaded", "answering")
  /\ request[r].op = "delete"
  /\ Deactivate(request[r].id)
  /\ UNCHANGED <<request, loaded, answer>>

\* Mutant: the response is made from what the request knows, without a refresh.
RefreshedKnown(r) ==
  IF request[r].op = "create" THEN endpoint[request[r].id] ELSE SavedWhole(r)

\* session.refresh, in a new transaction.
Refreshed(r) == endpoint[request[r].id]

Refresh(r) ==
  /\ Goto(r, "saved", "answering")
  /\ answer' = [answer EXCEPT ![r] = Refreshed(r)]
  /\ UNCHANGED <<endpoint, request, loaded>>

\* 201 or 200 with that row, 204 without a body.
Reply(r) ==
  /\ Goto(r, "answering", "replied")
  /\ UNCHANGED <<endpoint, request, loaded, answer>>

\* An error, or a lost process or connection: what is not committed is not kept.
Fail(r) ==
  /\ pc[r] \in {"started", "loaded", "saved", "answering"}
  /\ pc' = [pc EXCEPT ![r] = "failed"]
  /\ UNCHANGED <<endpoint, request, loaded, answer>>

AllOver == (\A r \in Requests : pc[r] \in Over) /\ UNCHANGED vars

Next ==
  \/ \E r \in Requests :
       \/ \E b \in Bodies : Arrive(r, b)
       \/ Create(r) \/ Load(r) \/ Missing(r) \/ Save(r) \/ Delete(r)
       \/ Refresh(r) \/ Reply(r) \/ Fail(r)
  \/ AllOver

Spec == Init /\ [][Next]_vars

-----------------------------------------------------------------------------

Updates(r, p) == request[r] # Null /\ request[r].op = "update" /\ request[r].id = p

\* Concurrent updates of different fields do not undo each other: a field that
\* one update alone has asked for keeps the value it gave.
DisjointUpdatesKept ==
  \A r \in Requests, p \in Endpoints, c \in {"url", "event_types"} :
    /\ Updates(r, p) /\ request[r][c] # Null /\ pc[r] \in {"saved", "answering", "replied"}
    /\ \A q \in Requests \ {r} : Updates(q, p) => request[q][c] = Null
    => endpoint[p][c] = request[r][c]

\* The answers a DELETE cannot reach any more are those already read when it
\* commits.  Every other one shows its endpoint inactive, also that of an update
\* which had read the endpoint active, or had even committed, before the DELETE.
DeletedIsSeen ==
  [][\A q, r \in Requests :
       /\ pc[q] \in {"answering", "replied"} /\ request[q].op = "delete"
       /\ request[r] # Null /\ request[r].id = request[q].id
       /\ answer'[r] # answer[r]
       => ~answer'[r].is_active]_vars

\* Requests change the table as EndpointTable says: above all, an update that read
\* its endpoint before a DELETE and commits after it does not bring it back.
ImplementsTable == TableSpec
=============================================================================
