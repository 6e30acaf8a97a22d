----------------------------- MODULE HttpReply ------------------------------
(***************************************************************************)
(* One request to the file server of homeworks/hw2: http_request_parse,    *)
(* the choice handle_files_request makes, and send_file_to_fd through the  *)
(* loop of http_send_data.                                                 *)
(*                                                                         *)
(* A request is a string of "U" (A to Z), "l" (any other letter or '/'),   *)
(* "sp" and "nl".  A file is the string 1 .. size.  The parser's reading   *)
(* position moves by a recursive function over the request.                *)
(***************************************************************************)
EXTENDS Integers, Sequences, FiniteSets

CONSTANTS
    MaxRequest,     \* length of a request
    BuffLen,        \* sizeof temp_buff of send_file_to_fd
    FileSizes

ASSUME ReplyAssumption ==
    MaxRequest \in Nat /\ BuffLen \in Nat \ {0} /\ FileSizes \subseteq Nat

VARIABLES
    request,    \* what read returned
    path,       \* what is at the requested path: its kind and its size
    reply,      \* what has been sent: status, length announced, body
    offset,     \* of the file, while it is sent
    buff,       \* temp_buff
    todo,       \* what http_send_data has yet to write
    progress    \* "parse", "choose", "file", "closed", "null"

replyVars == <<request, path, reply, offset, buff, todo, progress>>

Requests == UNION {[1 .. n -> {"U", "l", "sp", "nl"}] : n \in 0 .. MaxRequest}
Kinds == {"file", "index", "listing", "missing"}
Unset == 0

\* strcat to previous_file_dir, which is not initialised, may give a path
\* that is not there: "missing" stands for that too.
ReplyInit ==
    /\ request \in Requests
    /\ path \in [kind : Kinds, size : FileSizes]
    /\ path.kind \notin {"file", "index"} => path.size = CHOOSE n \in FileSizes : TRUE
    /\ reply = [status |-> 0, length |-> -1, body |-> <<>>, failed |-> FALSE]
    /\ offset = 0 /\ buff = [i \in 1 .. BuffLen |-> Unset] /\ todo = <<>>
    /\ progress = "parse"

-----------------------------------------------------------------------------
\* The character at I, "nul" behind the last.
Char(r, i) == IF i <= Len(r) THEN r[i] ELSE "nul"

\* Where a loop over the characters of SET ends.
While(r, i, set) ==
    LET end[k \in Nat] == IF Char(r, k) \in set THEN end[k + 1] ELSE k IN end[i]

\* Mutant of http_request_parse: the line need not end.
ParseOpen(r) ==
    LET m == While(r, 1, {"U"})
        p == While(r, m + 1, {"U", "l"})
    IN  IF m = 1 \/ Char(r, m) # "sp" \/ p = m + 1 THEN <<>> ELSE <<m - 1, p - 1>>

\* http_request_parse: the ends of method and path, <<>> for NULL.
http_request_parse(r) ==
    LET m == While(r, 1, {"U"})
        p == While(r, m + 1, {"U", "l"})
        e == While(r, p, {"U", "l", "sp"})
    IN  IF m = 1 \/ Char(r, m) # "sp" \/ p = m + 1 \/ Char(r, e) # "nl" THEN <<>>
        ELSE <<m - 1, p - 1>>

\* The handler uses the request without a test for NULL.
Parse ==
    /\ progress = "parse"
    /\ progress' = IF http_request_parse(request) = <<>> THEN "null" ELSE "choose"
    /\ UNCHANGED <<request, path, reply, offset, buff, todo>>

\* check_file and check_directory look at a buffer that stat has not filled
\* when the path is missing: any of the three answers may come of it.
Seen == IF path.kind = "missing" THEN {"file", "listing", "missing"} ELSE {path.kind}

\* The branches of handle_files_request.  A missing file "found" has a size
\* that was not set either, and open fails.
Choose ==
    /\ progress = "choose"
    /\ \E kind \in Seen :
         /\ reply' = [status |-> IF kind = "missing" THEN 404 ELSE 200,
                      length |-> IF kind \in {"file", "index"} THEN path.size ELSE -1,
                      body |-> <<>>, failed |-> FALSE]
         /\ progress' = IF kind \in {"file", "index"} /\ path.kind # "missing"
                     THEN "file" ELSE "closed"
    /\ UNCHANGED <<request, path, offset, buff, todo>>

\* One turn of send_file_to_fd: the whole buffer is sent, what read left in
\* it from before included.
ReadFile ==
    /\ progress = "file" /\ todo = <<>> /\ offset < path.size
    /\ LET n == IF path.size - offset < BuffLen THEN path.size - offset ELSE BuffLen IN
         /\ buff' = [i \in 1 .. BuffLen |-> IF i <= n THEN offset + i ELSE buff[i]]
         /\ offset' = offset + n
    /\ todo' = buff'
    /\ UNCHANGED <<request, path, reply, progress>>

\* A write of http_send_data takes some of the bytes, or fails: the loop is
\* left and the next buffer is sent all the same.
WriteSome ==
    /\ progress = "file" /\ todo # <<>>
    /\ \/ \E n \in 1 .. Len(todo) :
            /\ reply' = [reply EXCEPT !.body = @ \o SubSeq(todo, 1, n)]
            /\ todo' = SubSeq(todo, n + 1, Len(todo))
       \/ reply' = [reply EXCEPT !.failed = TRUE] /\ todo' = <<>>
    /\ UNCHANGED <<request, path, offset, buff, progress>>

\* read returns 0: both files are closed.
EndFile ==
    /\ progress = "file" /\ todo = <<>> /\ offset = path.size
    /\ progress' = "closed"
    /\ UNCHANGED <<request, path, reply, offset, buff, todo>>

ReplyNext == Parse \/ Choose \/ ReadFile \/ WriteSome \/ EndFile

ReplySpec == ReplyInit /\ [][ReplyNext]_replyVars

-----------------------------------------------------------------------------
\* Reference: "[A-Z]*", a space, "[^ \n]*", ".*" and the end of the line, as
\* the comments of http_request_parse have it, method and path not empty.
IsRequest(r, m, p) ==
    /\ 1 <= m /\ m + 2 <= p /\ p < Len(r)
    /\ \A i \in 1 .. m : r[i] = "U"
    /\ r[m + 1] = "sp"
    /\ \A i \in (m + 2) .. p : r[i] \in {"U", "l"}
    /\ r[p + 1] \in {"sp", "nl"}
    /\ \E e \in (p + 1) .. Len(r) : r[e] = "nl"

\* The parser accepts exactly the request lines, and cuts them where the
\* grammar does, however the rest of the line and the next lines read.
ParsesRequests ==
    LET got == http_request_parse(request)
        cuts == {c \in (1 .. MaxRequest) \X (1 .. MaxRequest) : IsRequest(request, c[1], c[2])}
    IN  progress # "parse" => cuts = IF got = <<>> THEN {} ELSE {got}

\* A client that reads Content-Length bytes has the file, in order, over all
\* short writes that do not fail, though send_file_to_fd sends whole buffers.
LengthIsFile ==
    (progress = "closed" /\ reply.length >= 0 /\ ~reply.failed /\ path.kind # "missing") =>
        /\ Len(reply.body) >= reply.length
        /\ SubSeq(reply.body, 1, reply.length) = [i \in 1 .. path.size |-> i]

\* One request to the file server: exactly the requests that have a method, a
\* path and a line's end parse, and a response that does not fail has as many
\* bytes as its Content-Length says, whatever the sizes of the writes.
RepliesRight == ParsesRequests /\ LengthIsFile
=============================================================================
