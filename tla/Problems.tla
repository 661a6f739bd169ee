------------------------------ MODULE Problems --------------------------------
(***************************************************************************)
(* The error registry, errors/__init__.py, and the problem documents that  *)
(* the exception handlers of http/problem.py make of an exception.  Titles *)
(* and free texts are left out; a header is its name.                      *)
(***************************************************************************)
EXTENDS Naturals, FiniteSets, Sequences

ProblemType(slug, status) == [slug |-> slug, status |-> status]

PROBLEM_TYPES ==
  [SERVER |-> ProblemType("server", 500),
   DATABASE |-> ProblemType("database", 500),
   INPUT |-> ProblemType("input", 400),
   AUTH |-> ProblemType("authorization", 401),
   APP_CHECK |-> ProblemType("app-check", 403),
   FORBIDDEN |-> ProblemType("forbidden", 403),
   NOT_FOUND |-> ProblemType("not-found", 404),
   CONFLICT |-> ProblemType("conflict", 409),
   RATE_LIMIT |-> ProblemType("rate-limit", 429),
   IDEMPOTENCY |-> ProblemType("idempotency", 409),
   PAYLOAD_TOO_LARGE |-> ProblemType("payload-too-large", 413),
   TIMEOUT |-> ProblemType("timeout", 504)]

None == "none"   \* a member that exclude_none leaves out

ErrorCode == {"OK"} \cup DOMAIN PROBLEM_TYPES

StatusToErrorCode ==
  [status \in {400, 401, 403, 404, 409, 413, 422, 429, 504} |->
     CASE status \in {400, 422} -> "INPUT"
       [] status = 401 -> "AUTH"
       [] status = 403 -> "FORBIDDEN"
       [] status = 404 -> "NOT_FOUND"
       [] status = 409 -> "CONFLICT"
       [] status = 413 -> "PAYLOAD_TOO_LARGE"
       [] status = 429 -> "RATE_LIMIT"
       [] status = 504 -> "TIMEOUT"]

\* Slip: the fallback takes every status that is not in the table.
ErrorCodeOrServer(status) ==
  IF status \in DOMAIN StatusToErrorCode THEN StatusToErrorCode[status]
  ELSE "SERVER"

\* error_code_for_status
ErrorCodeForStatus(status) ==
  IF status \in DOMAIN StatusToErrorCode THEN StatusToErrorCode[status]
  ELSE IF status >= 500 THEN "SERVER" ELSE None

AboutBlank == [base |-> "about:", slug |-> "blank"]

\* problem_type_uri; "base" is the base URL, or /problems of this host.
ProblemTypeUri(code, base) == [base |-> base, slug |-> PROBLEM_TYPES[code].slug]

\* AppError: its classmethods fix the code, its constructor takes any.
AppError(code, type) == [kind |-> "app", code |-> code, type |-> type]

AppErrorStatus(code) ==
  IF code \in DOMAIN PROBLEM_TYPES THEN PROBLEM_TYPES[code].status ELSE 500

\* AppError.resolve_type
ResolveType(e, base) ==
  IF e.type # None THEN [base |-> e.type, slug |-> None]
  ELSE IF e.code = "OK" THEN AboutBlank
  ELSE ProblemTypeUri(e.code, base)

HttpException(status, detail, headers) ==
  [kind |-> "http", status |-> status, detail |-> detail, headers |-> headers]

-----------------------------------------------------------------------------
\* problem_response
ProblemResponse(status, type, code, detail, headers) ==
  [media |-> "application/problem+json", status |-> status, type |-> type,
   code |-> code, detail |-> detail, headers |-> headers]

AppErrorHandler(e, base) ==
  ProblemResponse(AppErrorStatus(e.code), ResolveType(e, base), e.code, <<>>, {})

ValidationHandler(base) ==
  ProblemResponse(422, ProblemTypeUri("INPUT", base), "INPUT", <<>>, {})

HttpExceptionHandler(e, base) ==
  LET code == ErrorCodeForStatus(e.status)
  IN  ProblemResponse(e.status,
                      IF code = None THEN AboutBlank
                      ELSE ProblemTypeUri(code, base), code, e.detail, e.headers)

\* unhandled_exception_handler and unhandled_problem_response
UnhandledHandler(base) ==
  ProblemResponse(500, ProblemTypeUri("SERVER", base), "SERVER", <<>>, {})

\* register_exception_handlers: Starlette takes the handler of the nearest class.
Handler(e, base) ==
  CASE e.kind = "app" -> AppErrorHandler(e, base)
    [] e.kind = "validation" -> ValidationHandler(base)
    [] e.kind = "http" -> HttpExceptionHandler(e, base)
    [] e.kind = "other" -> UnhandledHandler(base)

\* problem_detail: the page of GET /problems/{slug}.
Page(slug) ==
  LET found == {c \in DOMAIN PROBLEM_TYPES : PROBLEM_TYPES[c].slug = slug}
  IN  IF found = {} THEN [status |-> 404, code |-> None]
      ELSE [status |-> 200, code |-> CHOOSE c \in found : TRUE]
=============================================================================
