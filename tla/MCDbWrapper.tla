------------------------------ MODULE MCDbWrapper ------------------------------
(***************************************************************************)
(* Small instances of DbWrapper.  The client thread uses the objects of    *)
(* dnp3index and dnp3tag (db), dnp3clientService (dbClient) and scaleAnalog*)
(* (scale); apiThread uses db.                                             *)
(***************************************************************************)
EXTENDS DbWrapper

CONSTANTS client, api, db, dbClient, scale

c(t, o, s) == [by |-> t, obj |-> o, sql |-> s]

\* One poll: the events, their indices, the DELETE, a control's tag and scale.
ClientCalls ==
    {c(client, dbClient, "events"), c(client, dbClient, "delete"),
     c(client, db, "index"), c(client, db, "tag"), c(client, scale, "range")}

\* The rows of the status wait while db looks an index up, and maxPoints runs.
SizingCalls ==
    {c(client, dbClient, "status"), c(client, db, "index"), c(api, db, "count")}
================================================================================
