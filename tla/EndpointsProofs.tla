-------------------------- MODULE EndpointsProofs --------------------------
(***************************************************************************)
(* Proofs that Endpoints implements EndpointTable, that updates of         *)
(* different fields do not undo each other, and that no answer read after  *)
(* a DELETE shows its endpoint active, for any number of requests and      *)
(* endpoints.                                                              *)
(***************************************************************************)
EXTENDS Endpoints, TLAPS

Fields == {"url", "event_types"}

(* What a request asks for is fixed when it arrives.                       *)
Asked == \A r \in Requests : request[r] = Null <=> pc[r] = "new"

(* The endpoint of a create that is about to insert is not there, and no   *)
(* other create has its id.                                                *)
Creates(r) == request[r] # Null /\ request[r].op = "create"
FreshIds ==
  /\ \A r \in Requests : Creates(r) /\ pc[r] = "started" => endpoint[request[r].id] = Null
  /\ \A q, r \in Requests :
       Creates(q) /\ Creates(r) /\ request[q].id = request[r].id => q = r

(* A request that has found or written a row names one that is there.      *)
Rows ==
  \A r \in Requests :
    /\ pc[r] \in {"loaded", "saved", "answering", "replied"} => endpoint[request[r].id] # Null
    /\ pc[r] = "loaded" => loaded[r] # Null /\ request[r].op # "create"
    /\ pc[r] = "saved" => request[r].op # "delete"

(* Of the updates of p, r alone asks for a value of c.                     *)
Sole(r, p, c) ==
  /\ Updates(r, p) /\ request[r][c] # Null
  /\ \A q \in Requests \ {r} : Updates(q, p) => request[q][c] = Null

(* A column that one update alone asks for keeps the value this update has *)
(* read until it is saved, and the value it gave from then on.             *)
Kept ==
  \A r \in Requests, p \in Endpoints, c \in Fields : Sole(r, p, c) =>
    /\ pc[r] = "loaded" => endpoint[p][c] = loaded[r][c]
    /\ pc[r] \in {"saved", "answering", "replied"} => endpoint[p][c] = request[r][c]

(* The row of a DELETE that has committed is inactive.                     *)
Gone ==
  \A r \in Requests : pc[r] \in {"answering", "replied"} /\ request[r].op = "delete" =>
    ~endpoint[request[r].id].is_active

IInv == TypeOK /\ Asked /\ FreshIds /\ Rows /\ Kept /\ Gone

-----------------------------------------------------------------------------
(* The invariant *)

\* What a well-formed body says.
LEMMA BodyType ==
  ASSUME NEW b \in Bodies
  PROVE  /\ b.op \in {"create", "update", "delete"} /\ b.id \in Endpoints
         /\ b.url \in Urls \cup {Null} /\ b.event_types \in TypeLists \cup {Null}
         /\ b["url"] = b.url /\ b["event_types"] = b.event_types
         /\ b.op = "create" => b.url \in Urls /\ b.event_types \in TypeLists
         /\ b # Null
  BY RequestAssumption DEF Bodies

\* A saved row differs from the old one in its url and event types only.
LEMMA UpdatedType ==
  ASSUME NEW r, request[r] \in Bodies, NEW old \in Columns
  PROVE  /\ Updated(r, old) \in Columns
         /\ Updated(r, old).is_active = old.is_active
         /\ \A c \in Fields : Updated(r, old)[c] =
              IF c \in Assigned(r) THEN request[r][c] ELSE old[c]
  <1>1. Assigned(r) \subseteq {"url", "event_types"}
    BY DEF Assigned
  <1>2. /\ "url" \in Assigned(r) => request[r].url \in Urls
        /\ "event_types" \in Assigned(r) => request[r].event_types \in TypeLists
    BY BodyType DEF Assigned
  <1>3. DOMAIN old = {"url", "event_types", "is_active"}
    BY DEF Columns
  <1>4. Updated(r, old) =
          [url |-> IF "url" \in Assigned(r) THEN request[r].url ELSE old.url,
           event_types |-> IF "event_types" \in Assigned(r) THEN request[r].event_types
                           ELSE old.event_types,
           is_active |-> old.is_active]
    BY <1>1, <1>3 DEF Updated
  <1> QED
    BY <1>2, <1>4 DEF Columns, Fields

(* The first state.                                                        *)
LEMMA InitInvariant == Init => IInv
  BY DEF Init, TableInit, IInv, TypeOK, TableOK, Asked, FreshIds, Creates, Rows, Kept, Sole,
         Updates, Gone

\* A step of r that changes no row and no request, and does not end a request.
LEMMA QuietStep ==
  ASSUME IInv, NEW r \in Requests, NEW to \in {"missing", "failed", "answering", "replied"},
         pc[r] \in {"started", "loaded", "saved", "answering"},
         to = "answering" => pc[r] = "saved", to = "replied" => pc[r] = "answering",
         pc' = [pc EXCEPT ![r] = to], UNCHANGED <<endpoint, request, loaded>>, TypeOK'
  PROVE  IInv'
  <1>1. Asked' /\ FreshIds' /\ Rows'
    BY DEF IInv, TypeOK, Asked, FreshIds, Creates, Rows
  <1>2. Kept'
    BY DEF IInv, TypeOK, Kept, Sole, Updates
  <1>3. Gone'
    BY DEF IInv, TypeOK, Rows, Gone
  <1> QED
    BY <1>1, <1>2, <1>3 DEF IInv

\* A request arrives.
LEMMA ArriveStep ==
  ASSUME IInv, NEW r \in Requests, NEW b \in Bodies, Arrive(r, b)
  PROVE  IInv'
  <1> USE DEF IInv
  <1>1. /\ b # Null /\ request[r] = Null /\ pc[r] = "new"
        /\ request' = [request EXCEPT ![r] = b]
        /\ pc' = [pc EXCEPT ![r] = "started"]
        /\ UNCHANGED <<endpoint, loaded, answer>>
    BY BodyType DEF Arrive, Goto, Asked
  <1>2. TypeOK' /\ Asked' /\ Rows' /\ Gone'
    BY <1>1 DEF TypeOK, TableOK, Asked, Rows, Gone
  <1>3. FreshIds'
    BY <1>1 DEF Arrive, TypeOK, FreshIds, Creates
  <1>4. ASSUME NEW q \in Requests, NEW p \in Endpoints, NEW c \in Fields, Sole(q, p, c)',
               pc'[q] # "started"
        PROVE  Sole(q, p, c) /\ pc'[q] = pc[q] /\ request'[q] = request[q]
    BY <1>1, <1>4 DEF TypeOK, Sole, Updates
  <1>5. Kept'
    BY <1>1, <1>4 DEF Kept
  <1> QED
    BY <1>2, <1>3, <1>5

\* A create inserts its row.
LEMMA CreateStep ==
  ASSUME IInv, NEW r \in Requests, Create(r)
  PROVE  IInv' /\ TableNext
  <1> USE DEF IInv
  <1> DEFINE p == request[r].id
             new == [url |-> request[r].url, event_types |-> request[r].event_types,
                     is_active |-> TRUE]
  <1>1. /\ request[r] \in Bodies /\ request[r].op = "create"
        /\ pc[r] = "started" /\ pc' = [pc EXCEPT ![r] = "saved"]
        /\ UNCHANGED <<request, loaded, answer>>
    BY DEF Create, Goto, TypeOK, Asked
  <1>2. /\ p \in Endpoints /\ new \in Columns /\ new # Null
        /\ request[r].url \in Urls /\ request[r].event_types \in TypeLists
    <2>1. /\ p \in Endpoints
          /\ request[r].url \in Urls /\ request[r].event_types \in TypeLists
      BY <1>1, BodyType
    <2>2. new \in Columns
      BY <2>1 DEF Columns
    <2> QED
      BY <2>1, <2>2, RowAssumption
  <1>3. endpoint[p] = Null /\ endpoint' = [endpoint EXCEPT ![p] = new]
    BY DEF Create, Insert
  <1>4. TypeOK' /\ Asked'
    BY <1>1, <1>2, <1>3 DEF TypeOK, TableOK, Asked
  <1>5. FreshIds' /\ Rows'
    <2>1. \A o \in Endpoints : endpoint'[o] = IF o = p THEN new ELSE endpoint[o]
      BY <1>3 DEF TypeOK, TableOK
    <2>2. FreshIds'
      BY <1>1, <2>1, BodyType DEF TypeOK, FreshIds, Creates
    <2>3. Rows'
      BY <1>1, <1>2, <2>1, BodyType DEF TypeOK, Asked, Rows
    <2> QED
      BY <2>2, <2>3
  <1>6. ASSUME NEW q \in Requests, pc[q] \in {"loaded", "saved", "answering", "replied"}
        PROVE  request[q].id # p /\ q # r /\ request[q] \in Bodies
    BY <1>1, <1>3, <1>6 DEF TypeOK, Rows, Asked
  <1>7. Gone'
    <2>1. ASSUME NEW q \in Requests, pc[q] \in {"answering", "replied"}, request[q].op = "delete"
          PROVE  endpoint'[request[q].id] = endpoint[request[q].id]
      BY <1>3, <1>6, <2>1, BodyType DEF TypeOK, TableOK
    <2> QED
      BY <1>1, <2>1 DEF Gone, TypeOK
  <1>8. Kept'
    <2>1. ASSUME NEW q \in Requests, NEW o \in Endpoints, NEW c \in Fields, Sole(q, o, c)',
                 pc'[q] \in {"loaded", "saved", "answering", "replied"}
          PROVE  /\ Sole(q, o, c) /\ q # r /\ pc[q] = pc'[q]
                 /\ o # p /\ endpoint'[o] = endpoint[o]
      <3>1. Sole(q, o, c) /\ q # r /\ pc[q] = pc'[q]
        BY <1>1, <2>1 DEF Sole, Updates, TypeOK
      <3>2. o # p
        BY <1>6, <2>1, <3>1 DEF Sole, Updates
      <3> QED
        BY <1>3, <3>1, <3>2 DEF TypeOK, TableOK
    <2> QED
      BY <1>1, <2>1 DEF Kept
  <1>9. TableNext
    BY <1>2 DEF Create, TableNext
  <1> QED
    BY <1>4, <1>5, <1>7, <1>8, <1>9

\* A request reads its row.
LEMMA LoadStep ==
  ASSUME IInv, NEW r \in Requests, Load(r)
  PROVE  IInv'
  <1> USE DEF IInv
  <1>1. /\ request[r] \in Bodies /\ request[r].op # "create"
        /\ endpoint[request[r].id] \in Columns /\ endpoint[request[r].id] # Null
        /\ pc[r] = "started" /\ pc' = [pc EXCEPT ![r] = "loaded"]
        /\ loaded' = [loaded EXCEPT ![r] = endpoint[request[r].id]]
        /\ UNCHANGED <<endpoint, request, answer>>
    BY BodyType DEF Load, Goto, Visible, Active, TypeOK, TableOK, Asked
  <1>2. TypeOK' /\ Asked' /\ FreshIds' /\ Rows' /\ Gone'
    BY <1>1 DEF TypeOK, TableOK, Asked, FreshIds, Creates, Rows, Gone
  <1>3. Kept'
    BY <1>1 DEF TypeOK, Kept, Sole, Updates
  <1> QED
    BY <1>2, <1>3

\* An update writes the columns it assigns into the row that is there now.
LEMMA SaveStep ==
  ASSUME IInv, NEW r \in Requests, Save(r)
  PROVE  IInv' /\ TableNext
  <1> USE DEF IInv
  <1>1. /\ request[r] \in Bodies /\ request[r].op = "update" /\ request[r].id \in Endpoints
        /\ endpoint[request[r].id] \in Columns /\ endpoint[request[r].id] # Null
        /\ pc[r] = "loaded" /\ pc' = [pc EXCEPT ![r] = "saved"]
        /\ UNCHANGED <<request, loaded, answer>>
    BY BodyType DEF Save, Goto, TypeOK, TableOK, Asked, Rows
  <1>2. PICK p \in Endpoints : p = request[r].id
    BY <1>1
  <1>3. PICK new \in Columns : new = Saved(r)
    BY <1>1, UpdatedType DEF Saved
  <1>4. /\ new # Null /\ new.is_active = endpoint[p].is_active
        /\ \A c \in Fields : new[c] = IF c \in Assigned(r) THEN request[r][c] ELSE endpoint[p][c]
    BY <1>1, <1>2, <1>3, UpdatedType, RowAssumption DEF Saved
  <1>5. endpoint' = [endpoint EXCEPT ![p] = new]
    BY <1>2, <1>3 DEF Save
  <1>6. TypeOK' /\ Asked' /\ FreshIds' /\ Rows'
    <2>1. TypeOK' /\ Asked'
      BY <1>1, <1>2, <1>5 DEF TypeOK, TableOK, Asked
    <2>2. FreshIds' /\ Rows'
      BY <1>1, <1>2, <1>4, <1>5 DEF TypeOK, TableOK, FreshIds, Creates, Rows
    <2> QED
      BY <2>1, <2>2
  <1>7. Gone'
    BY <1>1, <1>2, <1>4, <1>5 DEF TypeOK, TableOK, Gone
  <1>8. ASSUME NEW q \in Requests, NEW o \in Endpoints, NEW c \in Fields, Sole(q, o, c)'
        PROVE  /\ pc'[q] = "loaded" => endpoint'[o][c] = loaded'[q][c]
               /\ pc'[q] \in {"saved", "answering", "replied"} =>
                    endpoint'[o][c] = request'[q][c]
    <2>1. Sole(q, o, c)
      BY <1>1, <1>8 DEF Sole, Updates
    <2>2. CASE q = r
      <3>1. o = p
        BY <1>2, <2>1, <2>2 DEF Sole, Updates
      <3>2. endpoint[p][c] = loaded[r][c] /\ request[r][c] # Null
        BY <1>1, <2>1, <2>2, <3>1 DEF Kept, Sole
      <3>3. new[c] = request[r][c]
        BY <1>4, <3>2 DEF Assigned, Fields
      <3> QED
        BY <1>1, <1>5, <2>2, <3>1, <3>3 DEF TypeOK, TableOK
    <2>3. CASE q # r
      <3>1. endpoint'[o] = IF o = p THEN new ELSE endpoint[o]
        BY <1>5 DEF TypeOK, TableOK
      <3>2. o = p => c \notin Assigned(r)
        BY <1>1, <1>2, <2>1, <2>3, BodyType DEF Sole, Updates, Assigned
      <3>3. endpoint'[o][c] = endpoint[o][c]
        BY <1>4, <3>1, <3>2
      <3> QED
        BY <1>1, <2>1, <2>3, <3>3 DEF Kept, TypeOK
    <2> QED
      BY <2>2, <2>3
  <1>9. TableNext
    <2>1. /\ new.url \in Urls /\ new.event_types \in TypeLists
          /\ new = [endpoint[p] EXCEPT !.url = new.url, !.event_types = new.event_types]
      BY <1>1, <1>2, <1>4 DEF Columns
    <2>2. Update(p, new.url, new.event_types)
      BY <1>1, <1>2, <1>5, <2>1 DEF Update, TypeOK, TableOK
    <2> QED
      BY <2>1, <2>2 DEF TableNext
  <1> QED
    BY <1>6, <1>7, <1>8, <1>9 DEF Kept

\* A delete writes is_active only.
LEMMA DeleteStep ==
  ASSUME IInv, NEW r \in Requests, Delete(r)
  PROVE  IInv' /\ TableNext
  <1> USE DEF IInv
  <1>1. /\ request[r] \in Bodies /\ request[r].op = "delete" /\ request[r].id \in Endpoints
        /\ endpoint[request[r].id] \in Columns /\ endpoint[request[r].id] # Null
        /\ pc[r] = "loaded" /\ pc' = [pc EXCEPT ![r] = "answering"]
        /\ UNCHANGED <<request, loaded, answer>>
    BY BodyType DEF Delete, Goto, TypeOK, TableOK, Asked, Rows
  <1>2. PICK p \in Endpoints : p = request[r].id
    BY <1>1
  <1>3. PICK new \in Columns : new = [endpoint[p] EXCEPT !.is_active = FALSE]
    BY <1>1, <1>2 DEF Columns
  <1>4. new # Null /\ ~new.is_active /\ \A c \in Fields : new[c] = endpoint[p][c]
    BY <1>1, <1>2, <1>3, RowAssumption DEF Columns, Fields
  <1>5. endpoint' = [endpoint EXCEPT ![p] = new]
    BY <1>2, <1>3 DEF Delete, Deactivate
  <1>6. TypeOK' /\ Asked' /\ FreshIds' /\ Rows'
    <2>1. TypeOK' /\ Asked'
      BY <1>1, <1>5 DEF TypeOK, TableOK, Asked, Over
    <2>2. FreshIds' /\ Rows'
      BY <1>1, <1>2, <1>4, <1>5 DEF TypeOK, TableOK, FreshIds, Creates, Rows
    <2> QED
      BY <2>1, <2>2
  <1>7. Gone'
    BY <1>1, <1>2, <1>4, <1>5 DEF TypeOK, TableOK, Gone
  <1>8. \A o \in Endpoints, c \in Fields : endpoint'[o][c] = endpoint[o][c]
    BY <1>4, <1>5 DEF TypeOK, TableOK
  <1>9. Kept'
    BY <1>1, <1>8 DEF Kept, Sole, Updates, TypeOK
  <1>10. TableNext
    BY <1>1 DEF Delete, TableNext
  <1> QED
    BY <1>6, <1>7, <1>9, <1>10

\* Every step keeps the invariant, and is one of the table or not seen there.
LEMMA Step ==
  ASSUME IInv, [Next]_vars
  PROVE  IInv' /\ [TableNext]_endpoint
  <1>1. ASSUME NEW r \in Requests, NEW b \in Bodies, Arrive(r, b)
        PROVE  IInv' /\ UNCHANGED endpoint
    BY <1>1, ArriveStep DEF Arrive
  <1>2. ASSUME NEW r \in Requests, Load(r) PROVE IInv' /\ UNCHANGED endpoint
    BY <1>2, LoadStep DEF Load
  <1>3. ASSUME NEW r \in Requests, Missing(r) \/ Fail(r) PROVE IInv' /\ UNCHANGED endpoint
    <2>1. PICK to \in {"missing", "failed"} : pc' = [pc EXCEPT ![r] = to]
      BY <1>3 DEF Missing, Fail, Goto
    <2>2. /\ pc[r] \in {"started", "loaded", "saved", "answering"}
          /\ UNCHANGED <<endpoint, request, loaded, answer>>
      BY <1>3 DEF Missing, Fail, Goto
    <2>3. TypeOK'
      BY <2>1, <2>2 DEF IInv, TypeOK, TableOK, Over
    <2> QED
      BY <2>1, <2>2, <2>3, QuietStep
  <1>4. ASSUME NEW r \in Requests, Refresh(r) PROVE IInv' /\ UNCHANGED endpoint
    <2>1. /\ pc[r] = "saved" /\ pc' = [pc EXCEPT ![r] = "answering"]
          /\ answer' = [answer EXCEPT ![r] = endpoint[request[r].id]]
          /\ UNCHANGED <<endpoint, request, loaded>>
      BY <1>4 DEF Refresh, Goto, Refreshed
    <2>2. request[r].id \in Endpoints
      BY <2>1, BodyType DEF IInv, TypeOK, Asked
    <2>3. TypeOK'
      BY <2>1, <2>2 DEF IInv, TypeOK, TableOK, Over
    <2> QED
      BY <2>1, <2>3, QuietStep
  <1>5. ASSUME NEW r \in Requests, Reply(r) PROVE IInv' /\ UNCHANGED endpoint
    <2>1. /\ pc[r] = "answering" /\ pc' = [pc EXCEPT ![r] = "replied"]
          /\ UNCHANGED <<endpoint, request, loaded, answer>>
      BY <1>5 DEF Reply, Goto
    <2>2. TypeOK'
      BY <2>1 DEF IInv, TypeOK, TableOK, Over
    <2> QED
      BY <2>1, <2>2, QuietStep
  <1>6. ASSUME UNCHANGED vars PROVE IInv' /\ UNCHANGED endpoint
    BY <1>6 DEF vars, IInv, TypeOK, TableOK, Asked, FreshIds, Creates, Rows, Kept, Sole,
                Updates, Gone
  <1> QED
    BY <1>1, <1>2, <1>3, <1>4, <1>5, <1>6, CreateStep, SaveStep, DeleteStep DEF Next, AllOver

-----------------------------------------------------------------------------
(* The theorems *)

\* What each POST, PATCH and DELETE has read, and what it has written, stays
\* related to the row as the columns that it assigns: the invariant always holds.
THEOREM EndpointsInvariant == Spec => []IInv
  BY InitInvariant, Step, PTL DEF Spec

\* Every variable keeps its type: what update_endpoint writes is a row.
THEOREM EndpointsTypeCorrect == Spec => []TypeOK
  BY EndpointsInvariant, PTL DEF IInv

\* A field that one update alone has asked for keeps the value it gave, however
\* many other requests read and write the endpoint (update_endpoint).
THEOREM DisjointUpdatesAlwaysKept == Spec => []DisjointUpdatesKept
  <1>1. IInv => DisjointUpdatesKept
    BY DEF IInv, Kept, Sole, Fields, DisjointUpdatesKept
  <1> QED
    BY <1>1, EndpointsInvariant, PTL

\* Once a DELETE has committed, what a POST or PATCH reads again for its answer
\* (session.refresh) is inactive, whenever that request read or wrote the row.
THEOREM DeletedAlwaysSeen == Spec => DeletedIsSeen
  <1>1. ASSUME IInv, [Next]_vars, NEW q \in Requests, NEW r \in Requests,
               pc[q] \in {"answering", "replied"}, request[q].op = "delete",
               request[r].id = request[q].id, answer'[r] # answer[r]
        PROVE  ~answer'[r].is_active
    <2>1. PICK o \in Requests : Refresh(o)
      BY <1>1 DEF Next, AllOver, vars, Arrive, Create, Load, Missing, Save, Delete, Reply,
                  Fail
    <2>2. o = r /\ answer'[r] = endpoint[request[q].id]
      BY <1>1, <2>1 DEF Refresh, Refreshed, IInv, TypeOK
    <2> QED
      BY <1>1, <2>2 DEF IInv, Gone
  <1>2. IInv /\ [Next]_vars =>
          [\A q, r \in Requests :
             /\ pc[q] \in {"answering", "replied"} /\ request[q].op = "delete"
             /\ request[r] # Null /\ request[r].id = request[q].id
             /\ answer'[r] # answer[r]
             => ~answer'[r].is_active]_vars
    BY <1>1
  <1> QED
    BY <1>2, EndpointsInvariant, PTL DEF Spec, DeletedIsSeen

\* The requests change the table as EndpointTable says: rows appear active, and a
\* deactivated row is never active again.
THEOREM TableImplemented == Spec => ImplementsTable
  <1>1. Init => TableInit
    BY DEF Init
  <1> QED
    BY <1>1, EndpointsInvariant, Step, PTL DEF Spec, ImplementsTable, TableSpec
=============================================================================
