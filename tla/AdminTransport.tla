--------------------------- MODULE AdminTransport ---------------------------
(***************************************************************************)
(* How one request is made and how its answer becomes a result.  The SDK   *)
(* has no single request routine: sixteen of them send a request, and they *)
(* differ in whether they name the acting company, in which answers leave  *)
(* their request identifier with the caller, and in what they make of a    *)
(* body that cannot be read or is not what it should be.  A route is the   *)
(* record of those differences; Results is what they share.                *)
(***************************************************************************)
EXTENDS Naturals

NoId == 0                    \* no request identifier

(***************************************************************************)
(* An answer: its status class, the state of its body and the identifier   *)
(* the server gave the request.  "retryable" are the statuses of           *)
(* RetryOnStatuses, "conflict" is 409 and "refused" are the others that    *)
(* prove a rejection.  "inconclusive" are those that prove nothing, a      *)
(* gateway's 501 or 520 for one, and that RetryOnStatuses does not name,   *)
(* with a custom set 504 too: the code takes them for a rejection.         *)
(***************************************************************************)
Statuses == {"success", "conflict", "refused", "retryable", "inconclusive"}

\* "partial" is a document without a required field, "altered" one that is
\* well formed but not what the server sent, "cut" a body that breaks off
\* while it is read.
Bodies == {"whole", "partial", "garbled", "empty", "oversized", "altered", "cut"}

----------------------------------------------------------------------------
(***************************************************************************)
(* The routes.  space: under /api/v1/admin or elsewhere.                   *)
(* company: the configured acting company is added to the path.            *)
(* records: which answers set the context's MetadataRecorder.              *)
(* returns: for which answers the caller gets ResponseMetadata.            *)
(* reading: what becomes of the body before it is decoded.                 *)
(* mayLand: the caller is told when a request may have taken effect        *)
(* although the call failed.                                               *)
(***************************************************************************)
Route(space, company, records, returns, reading) ==
    [space |-> space, company |-> company, records |-> records, returns |-> returns,
     reading |-> reading, mayLand |-> FALSE]

Admin        == Route("admin", TRUE, "answers", "nothing", "whole")
AdminMeta    == Route("admin", TRUE, "nothing", "answers", "whole")
AdminForm    == Route("admin", TRUE, "answers", "answers", "whole")
Bytes        == Route("admin", FALSE, "nothing", "nothing", "bounded")
Verified     == Route("admin", FALSE, "nothing", "nothing", "verified")
UsageStream  == Route("admin", FALSE, "successes", "successes", "streamed")
NonAdmin     == Route("root", FALSE, "nothing", "nothing", "whole")
OutsideAdmin == Route("root", FALSE, "answers", "answers", "whole")
Provisioning == Route("root", FALSE, "successes", "nothing", "unchecked")
RawUpload    == [NonAdmin EXCEPT !.mayLand = TRUE]
Measurement  == NonAdmin
Analytics    == NonAdmin
Parser       == NonAdmin
Reporting    == NonAdmin
Authority    == NonAdmin
ReportBytes  == [Bytes EXCEPT !.space = "root"]

\* The tenant a request names when the caller asks for this one: "own" is the
\* credential's, "acting" the configured ActingCompanySlug, "named" a company
\* the path already carries, which stays.
Company(route, tenant) == IF tenant = "acting" /\ ~route.company THEN "own" ELSE tenant

----------------------------------------------------------------------------
\* What is left of a body once the route has read it.  Provisioning ignores
\* the read error and decodes what arrived; a streamed body is not read.
BodyRead(route, body) ==
    IF body # "cut" THEN {body}
    ELSE CASE route.reading = "unchecked" -> {"empty", "garbled"}
           [] route.reading = "streamed"  -> {"cut"}
           [] OTHER                       -> {"unreadable"}

\* Does the method take this body as its answer?  decode: "ignored" methods
\* expect no document, "bytes" keep what they read, "loose" ones want JSON,
\* "typed" ones its required fields too, and only "strict" ones refuse an
\* empty body: the others take it for a zero value.
Taken(route, decode, body) ==
    /\ route.reading \in {"bounded", "verified"} => body # "oversized"
    /\ route.reading = "verified" => body = "whole"
    /\ decode \in {"loose", "typed", "strict"} => body # "garbled"
    /\ decode \in {"typed", "strict"} => body # "partial"
    /\ decode = "strict" => body # "empty"

\* The error of a call whose outcome the SDK did not learn: "unknown" is
\* RawAcceptanceUnknownError.
Failure(route) == IF route.mayLand THEN "unknown" ELSE "error"

\* mutant: every status the server chose counts as a rejection
VerdictByStatus(route, decode, status, body) ==
    IF body = "unreadable" THEN Failure(route)
    ELSE CASE status = "success"  -> IF Taken(route, decode, body) THEN "nil" ELSE Failure(route)
           [] status = "conflict" -> "conflict"
           [] OTHER               -> "error"

\* What the call makes of an answer.  Only a retryable status leaves the
\* outcome open, whatever other statuses a gateway may answer with.
Verdict(route, decode, status, body) ==
    IF body = "unreadable" \/ status = "retryable" THEN Failure(route)
    ELSE CASE status = "success"  -> IF Taken(route, decode, body) THEN "nil" ELSE Failure(route)
           [] status = "conflict" -> "conflict"
           [] OTHER               -> "error"

\* mutant: the identifier is taken after the status check
IdentifiedLate(when, status, body) ==
    /\ body # "unreadable"
    /\ when \in {"answers", "successes"} /\ status = "success"

\* The identifier is taken from an answer once its body has been read.
Identified(when, status, body) ==
    /\ body # "unreadable"
    /\ when = "answers" \/ (when = "successes" /\ status = "success")

\* Every result the call can have after this answer to request id.
Results(route, decode, status, body, id) ==
    {[error    |-> Verdict(route, decode, status, read),
      status   |-> status,
      reported |-> IF Identified(route.returns, status, read) THEN id ELSE NoId,
      recorded |-> IF Identified(route.records, status, read) THEN id ELSE NoId,
      kept     |-> read] : read \in BodyRead(route, body)}

\* The result of a call that met no answer.
Unanswered(route) ==
    [error |-> Failure(route), status |-> "none", reported |-> NoId, recorded |-> NoId, kept |-> "none"]
=============================================================================
