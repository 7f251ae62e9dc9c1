--------------------------- MODULE EndpointTable ---------------------------
(***************************************************************************)
(* The "endpoint" table as the rest of the service sees it: a row appears  *)
(* active, its columns are replaced now and then, and it is deactivated    *)
(* once and for all.  Endpoints refines this module; FanOut reads it.      *)
(***************************************************************************)
EXTENDS Naturals

CONSTANTS
  Endpoints,   \* endpoint ids
  TypeLists,   \* lists of event types, as sets
  Urls,        \* target urls
  Null         \* no row, and a field missing from a request

Columns == [url : Urls, event_types : TypeLists, is_active : BOOLEAN]

ASSUME RowAssumption == Null \notin Urls /\ Null \notin TypeLists /\ Null \notin Columns

VARIABLE endpoint   \* the committed rows

TableOK == endpoint \in [Endpoints -> Columns \cup {Null}]

TableInit == endpoint = [p \in Endpoints |-> Null]

Insert(p, u, T) ==
  /\ endpoint[p] = Null
  /\ endpoint' = [endpoint EXCEPT ![p] = [url |-> u, event_types |-> T, is_active |-> TRUE]]

\* A deactivated row may still be written by an update that read it before.
Update(p, u, T) ==
  /\ endpoint[p] # Null
  /\ endpoint' = [endpoint EXCEPT ![p].url = u, ![p].event_types = T]

Deactivate(p) ==
  /\ endpoint[p] # Null
  /\ endpoint' = [endpoint EXCEPT ![p].is_active = FALSE]

TableNext ==
  \E p \in Endpoints :
    \/ \E u \in Urls, T \in TypeLists : Insert(p, u, T) \/ Update(p, u, T)
    \/ Deactivate(p)

TableSpec == TableInit /\ [][TableNext]_endpoint

Active(p) == endpoint[p] # Null /\ endpoint[p].is_active

\* list_active_matching_endpoints_for_tenant, for an event of type t.
Matching(t) == {p \in Endpoints : Active(p) /\ t \in endpoint[p].event_types}
=============================================================================
