----------------------------- MODULE LineageWire -----------------------------
(***************************************************************************)
(* The calls between the client SDK and the server, as both see them: the  *)
(* payload of schemas.py, how far the server got with it, and whether the  *)
(* client still has the connection open.                                   *)
(***************************************************************************)
EXTENDS LineageData

VARIABLE calls  \* the calls not yet forgotten by both sides, by CallId

(* The queries a handler issues, in the order it issues them.              *)
DbPhase == {"previous", "model", "compare", "resume", "promote", "create",
            "update", "find"}

(* "wire": sent, not read by the server; "reply": the handler has its      *)
(* answer; "answered": the answer is with the client.                      *)
Phase == DbPhase \cup {"wire", "reply", "answered"}

(* The response: an HTTP status, and for a successful PRE the identity the *)
(* client is to save.                                                      *)
Answer == [code : {0, 200, 409, 422, 500}, id : Nat, baseId : Nat, base : BOOLEAN]

Silence == [code |-> 0, id |-> 0, baseId |-> 0, base |-> FALSE]

Refusal(code) == [Silence EXCEPT !.code = code]

(* One record for both kinds of call.  Of a PRE: ident and snap are the    *)
(* request; prevSnap, strategy and from what the handler has found so far. *)
(* Of a POST: id and status are the request.  "issued": the handler's      *)
(* current query is on its way to the database.                            *)
Call == [phase : Phase, open : BOOLEAN, issued : BOOLEAN,
         ident : Identity, snap : Snapshot \cup {Garbled},
         prevSnap : Snapshot \cup {Garbled},
         strategy : Strategy \cup {"unknown"},
         from : Snapshot \cup {Garbled},
         id : Nat, status : Status,
         answer : Answer]

PreCall(ident, snap) ==
  [phase |-> "wire", open |-> TRUE, issued |-> FALSE,
   ident |-> ident, snap |-> snap,
   prevSnap |-> Garbled, strategy |-> "unknown", from |-> Garbled,
   id |-> 0, status |-> "RUNNING", answer |-> Silence]

PostCall(id, status) ==
  [PreCall(NoIdentity, Garbled) EXCEPT !.id = id, !.status = status]

With(cs, c, call) == [d \in DOMAIN cs \cup {c} |-> IF d = c THEN call ELSE cs[d]]

Without(cs, c) == [d \in DOMAIN cs \ {c} |-> cs[d]]

WireInit == calls = <<>>

WireTypeOK ==
  /\ DOMAIN calls \subseteq CallId
  /\ \A c \in DOMAIN calls : calls[c] \in Call
=============================================================================
