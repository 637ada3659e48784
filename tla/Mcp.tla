-------------------------------- MODULE Mcp ----------------------------------
(***************************************************************************)
(* The MCP server on standard input and output,                            *)
(* crates/deep-diff-forge-cli/src/mcp.rs: one JSON-RPC message per line,   *)
(* a line over LINE_CAP refused and skipped, the legacy handshake beside   *)
(* requests that carry their own version, and the tools over the daemon's  *)
(* own dispatcher.                                                         *)
(*                                                                         *)
(* The bytes arrive in chunks of any size.  A line is its length and what  *)
(* the server tells apart in it; the client numbers its lines, so the id   *)
(* of a line that has one is its row.  A document of the daemon is its     *)
(* files, each a path, a size and its counts.                              *)
(***************************************************************************)
EXTENDS ExitCodes, SequencesExt, FiniteSetsExt

CONSTANTS Sent,                \* what a client may send: sequences of lines
          Chunk,               \* the most bytes the buffer is filled with
          LINE_CAP, REVIEW_FULL_CAP, SUMMARY_FILE_LIMIT, RANK_SUMMARY_OVERHEAD,
          MCP_MIN_BYTES, MCP_MAX_BYTES,
          Null, Absent

\* A line of no bytes is blank, and what a tool is called with has sizes to add up.
ASSUME SentValues ==
  /\ Chunk \in Nat \ {0} /\ LINE_CAP \in Nat
  /\ REVIEW_FULL_CAP \in Nat /\ SUMMARY_FILE_LIMIT \in Nat /\ RANK_SUMMARY_OVERHEAD \in Nat
  /\ \A s \in Sent :
       /\ s \in Seq(ToSet(s))
       /\ \A m \in ToSet(s) :
            /\ m.len \in Nat /\ m.text \in {"utf8", "blank", "bytes"} /\ (m.len = 0 => m.text = "blank")
            /\ m.json \in {"bad", "other", "object"} /\ m.rpc \in BOOLEAN
            /\ m.id \in {"ok", "none", "bad"} /\ m.params \in {"object", "other"}
            /\ m.meta \in {"modern", "bare", "other", "none"}
            /\ m.call # Absent =>
                 /\ m.call.engine \in {"value", "refused", "failed", "panicked", "gone"}
                 /\ m.call.files \in Seq(ToSet(m.call.files))
                 /\ \A f \in ToSet(m.call.files) : f.size \in Nat

\* No version of the protocol is taken for the lack of one.
ASSUME NoVersion == Absent \notin {"2025-11-25", "2025-06-18", "2025-03-26"}

VARIABLES lines,      \* what this client sends
          ends,       \* the last line has its newline
          row, col,   \* the line being read, and its bytes that were consumed
          buffered,   \* bytes in the buffer and not consumed
          held, over, \* read_line: the bytes kept of this line; it was too long
          legacy,     \* Server.legacy: the version the handshake agreed on
          replies     \* what was written, each with the row it answers

mcpVars == <<lines, ends, row, col, buffered, held, over, legacy, replies>>

LEGACY == <<"2025-11-25", "2025-06-18", "2025-03-26">>

Tools == {"review_patch", "rank_patch", "review_outline", "review_hunks", "review_change",
          "verify_findings", "explain_exit_code", "exit_code_registry"}

\* The properties each input schema names; none takes another.
Arguments(tool) ==
  LET guards == {"patch", "require_files", "require_hunks"}
      paging == {"max_bytes", "cursor"}
  IN  CASE tool = "review_patch" -> guards \cup {"detail", "paths"}
        [] tool = "rank_patch" -> guards
        [] tool = "review_outline" -> guards \cup paging
        [] tool = "review_hunks" -> guards \cup paging \cup {"addresses", "paths"}
        [] tool = "review_change" -> (guards \ {"patch"}) \cup paging \cup {"repo", "selection", "range",
                                       "include_untracked", "view", "addresses", "paths"}
        [] tool = "verify_findings" -> guards \cup {"findings"}
        [] tool = "explain_exit_code" -> {"code", "family"}
        [] tool = "exit_code_registry" -> {}

\* The arguments a schema limits to a list of values.
Enumerated(tool, key) ==
  CASE tool = "review_patch" /\ key = "detail" -> {"auto", "summary"}
    [] tool = "review_change" /\ key = "selection" -> {"staged", "working_tree", "range"}
    [] tool = "review_change" /\ key = "view" -> {"outline", "hunks"}
    [] tool = "explain_exit_code" /\ key = "family" -> {"engine", "council"}
    [] OTHER -> {}

tool_error(why) == [ok |-> FALSE, why |-> why]
structured(doc) == [ok |-> TRUE, doc |-> doc]
-----------------------------------------------------------------------------
\* daemon_value_in: the dispatcher's value, or a tool error for a refusal, a panic inside
\* it, or an allowed root that is gone.
daemon_value_in(call) ==
  CASE call.engine = "value" -> structured(call.files)
    [] call.engine = "refused" -> tool_error("refused")
    [] call.engine = "failed" -> tool_error("daemon error")
    [] call.engine = "panicked" -> tool_error("internal error")
    [] call.engine = "gone" -> tool_error("an allowed repository root is gone")

Arg(call, key, default) == IF key \in DOMAIN call.args THEN call.args[key] ELSE default
Summed(files, what) == FoldLeft(LAMBDA n, f : n + f[what], 0, files)

\* line_counts, of all of the files.
line_counts(files) == [files |-> Len(files), additions |-> Summed(files, "additions"),
                       deletions |-> Summed(files, "deletions")]

\* summarize: the seal and the totals, and the first files with their counts.
summarize(review) ==
  LET n == Min({Len(review.files), SUMMARY_FILE_LIMIT})
  IN  [review EXCEPT !.form = "summary", !.files = SubSeq(review.files, 1, n),
                     !.omitted = Len(review.files) - n]

\* The files at one of the paths.
FilesAt(files, paths) ==
  FlattenSeq([k \in 1 .. Len(files) |-> IF Contains(paths, files[k].path) THEN <<files[k]>> ELSE <<>>])

\* The files that were asked for, with their own totals.
Only(review, paths) ==
  LET kept == FilesAt(review.files, paths)
  IN  [review EXCEPT !.files = kept, !.summary = line_counts(kept)]

\* review_tool_with: the review in full while it fits the cap, else its summary.
review_tool_with(call) ==
  LET paths == Arg(call, "paths", <<>>)
      all == [form |-> "full", files |-> call.files, omitted |-> 0, seal |-> call.files,
              summary |-> line_counts(call.files)]
      review == IF "paths" \in DOMAIN call.args THEN Only(all, paths) ELSE all
      missing == \E k \in DOMAIN paths : \A f \in ToSet(call.files) : f.path # paths[k]
  IN  CASE call.engine # "value" -> daemon_value_in(call)
        [] call.engine = "value" /\ missing -> tool_error("no file in the patch is named")
        [] OTHER -> structured(
             IF Arg(call, "detail", "auto") = "summary" \/ Summed(review.files, "size") > REVIEW_FULL_CAP
             THEN summarize(review) ELSE review)

\* rank_tool_with: the ranking in full while it fits, else the first files that do.
rank_tool_with(call) ==
  LET full == Summed(call.files, "size")
      budget == IF REVIEW_FULL_CAP > RANK_SUMMARY_OVERHEAD
                THEN REVIEW_FULL_CAP - RANK_SUMMARY_OVERHEAD ELSE 0
      kept == Max({n \in 0 .. Len(call.files) : Summed(SubSeq(call.files, 1, n), "size") <= budget})
      n == IF full <= REVIEW_FULL_CAP THEN Len(call.files) ELSE kept
  IN  IF call.engine # "value" THEN daemon_value_in(call)
      ELSE structured([form |-> IF full <= REVIEW_FULL_CAP THEN "full" ELSE "summary",
                       files |-> SubSeq(call.files, 1, n), omitted |-> Len(call.files) - n,
                       seal |-> call.files, summary |-> line_counts(call.files)])

\* view_tool: max_bytes is checked here; what fits it is Views!fit_emitted, with 2 copies.
view_tool(call) ==
  IF Arg(call, "max_bytes", MCP_MAX_BYTES) \in MCP_MIN_BYTES .. MCP_MAX_BYTES
  THEN daemon_value_in(call)
  ELSE tool_error("max_bytes must be an integer")

\* explain: a code its family documents.
explain(call) ==
  IF Arg(call, "code", Absent) \in EXIT_CODES(Arg(call, "family", "engine"))
  THEN structured(call.args.code)
  ELSE tool_error("is not documented")

\* call_tool: a call that is not one is a protocol error; what a tool refuses is not.
call_tool(m) ==
  LET call == m.call
      extra == DOMAIN call.args \ Arguments(call.tool)
      wrong == {k \in DOMAIN call.args : /\ Enumerated(call.tool, k) # {}
                                         /\ call.args[k] \notin Enumerated(call.tool, k)}
  IN  CASE call = Absent -> [error |-> "INVALID_PARAMS"]
        [] call # Absent /\ call.tool \notin Tools -> [error |-> "INVALID_PARAMS"]
        [] call # Absent /\ call.tool \in Tools /\ extra # {} ->
             [result |-> tool_error("unknown argument")]
        [] call # Absent /\ call.tool \in Tools /\ extra = {} /\ wrong # {} ->
             [result |-> tool_error("must be one of")]
        [] OTHER -> [result |->
             CASE call.tool = "review_patch" -> review_tool_with(call)
               [] call.tool = "rank_patch" -> rank_tool_with(call)
               [] call.tool \in {"review_outline", "review_hunks", "review_change"} -> view_tool(call)
               [] call.tool = "verify_findings" -> daemon_value_in(call)
               [] call.tool = "explain_exit_code" -> explain(call)
               [] call.tool = "exit_code_registry" ->
                    structured([f \in {"engine", "council"} |-> EXIT_CODES(f)])]
-----------------------------------------------------------------------------
\* era_of: the request names the modern version, or the handshake was made and it names none.
era_of(m, agreed) ==
  CASE m.meta = "modern" -> "Modern"
    [] m.meta = "bare" -> "INVALID_PARAMS"
    [] m.meta = "other" -> "UNSUPPORTED_PROTOCOL_VERSION"
    [] m.meta = "none" -> IF agreed = Absent THEN "INVALID_PARAMS" ELSE "Legacy"

\* Server::request, of a method other than initialize.
request(m, agreed) ==
  LET era == era_of(m, agreed)
  IN  CASE era \notin {"Modern", "Legacy"} -> [error |-> era]
        [] era = "Modern" /\ m.method = "server/discover" -> [result |-> "discovered"]
        [] era \in {"Modern", "Legacy"} /\ m.method = "ping" -> [result |-> "pong"]
        [] era \in {"Modern", "Legacy"} /\ m.method = "tools/list" -> [result |-> Tools]
        [] era \in {"Modern", "Legacy"} /\ m.method = "tools/call" -> call_tool(m)
        [] OTHER -> [error |-> "METHOD_NOT_FOUND"]

\* initialize: the version that was asked for when it is served, else the newest.
initialize(m) == IF m.version \in ToSet(LEGACY) THEN m.version ELSE LEGACY[1]

\* The line is acted on: a 2.0 envelope with an id, a method and an object for params.
Acts(m) == m.json = "object" /\ m.rpc /\ m.id = "ok" /\ m.method # Absent /\ m.params = "object"

\* handle_line: the answer to row r, a sequence of one reply or none.
handle_line(m, r, agreed) ==
  LET To(id, body) == <<[row |-> r, id |-> id, body |-> body]>>
      Own == IF m.id = "ok" THEN r ELSE Null
  IN  CASE m.json = "bad" -> To(Null, [error |-> "PARSE_ERROR"])
        [] m.json = "other" -> To(Null, [error |-> "INVALID_REQUEST"])
        [] m.json = "object" /\ ~m.rpc ->
             IF m.id = "none" THEN <<>> ELSE To(Own, [error |-> "INVALID_REQUEST"])
        [] m.json = "object" /\ m.rpc /\ m.id # "ok" ->
             IF m.id = "bad" /\ m.method # Absent THEN To(Null, [error |-> "INVALID_REQUEST"]) ELSE <<>>
        [] m.json = "object" /\ m.rpc /\ m.id = "ok" /\ m.method = Absent ->
             To(r, [error |-> "INVALID_REQUEST"])
        [] m.json = "object" /\ m.rpc /\ m.id = "ok" /\ m.method # Absent /\ m.params # "object" ->
             To(r, [error |-> "INVALID_PARAMS"])
        [] Acts(m) -> To(r, IF m.method = "initialize" THEN [result |-> initialize(m)]
                            ELSE request(m, agreed))

\* What is left in Server.legacy after the line.
Agreed(m, agreed) == IF Acts(m) /\ m.method = "initialize" THEN initialize(m) ELSE agreed
-----------------------------------------------------------------------------
MInit == /\ lines \in Sent /\ ends \in BOOLEAN
         /\ row = 1 /\ col = 0 /\ buffered = 0
         /\ held = 0 /\ over = FALSE
         /\ legacy = Absent /\ replies = <<>>

\* The bytes of the input that were not consumed yet; every line but an unended last one
\* has its newline.
Width(r) == lines[r].len + (IF r < Len(lines) \/ ends THEN 1 ELSE 0)
Left == LET upto[r \in 0 .. Len(lines)] == IF r = 0 THEN 0 ELSE upto[r - 1] + Width(r)
        IN  upto[Len(lines)] - upto[row - 1] - col

\* fill_buf: the next bytes, as many as there are.
fill_buf == /\ buffered = 0 /\ Left > 0
            /\ \E n \in 1 .. Min({Chunk, Left}) : buffered' = n
            /\ UNCHANGED <<lines, ends, row, col, held, over, legacy, replies>>

\* serve_server, given the line that read_line returned for row r.
Answer(r, tooLong) ==
  LET m == lines[r]
      To(code) == <<[row |-> r, id |-> Null, body |-> [error |-> code]]>>
  IN  /\ legacy' = IF tooLong \/ m.text # "utf8" THEN legacy ELSE Agreed(m, legacy)
      /\ replies' = replies \o
           CASE tooLong -> To("INVALID_REQUEST")
             [] ~tooLong /\ m.text = "blank" -> <<>>
             [] ~tooLong /\ m.text = "bytes" -> To("PARSE_ERROR")
             [] OTHER -> handle_line(m, r, legacy)

\* Has read_line now more than the cap?
TooLong(chunk) == over \/ held + chunk > LINE_CAP

\* A fault of After: a long line is given up where it got too long.
AfterCut(chunk, found) == IF found \/ TooLong(chunk) THEN "line" ELSE "more"

\* What read_line does after a chunk: it returns at the newline only.
After(chunk, found) == IF found THEN "line" ELSE "more"

\* read_line, from one fill of the buffer to the next: the line's bytes in it are kept
\* unless they are too many, and its newline ends it.
read_line ==
  LET chunk == Min({buffered, lines[row].len - col})
      found == buffered > chunk
      done == chunk + (IF found THEN 1 ELSE 0)
  IN  /\ buffered > 0
      /\ buffered' = buffered - done
      /\ IF After(chunk, found) = "line"
         THEN /\ Answer(row, TooLong(chunk))
              /\ held' = 0 /\ over' = FALSE
         ELSE /\ held' = IF TooLong(chunk) THEN 0 ELSE held + chunk
              /\ over' = TooLong(chunk)
              /\ UNCHANGED <<legacy, replies>>
      /\ IF found THEN row' = row + 1 /\ col' = 0
         ELSE row' = row /\ col' = col + chunk
      /\ UNCHANGED <<lines, ends>>

\* The input is closed: a line without its newline counts when there is anything of it.
end_of_input ==
  /\ buffered = 0 /\ Left = 0 /\ row = Len(lines)
  /\ row' = row + 1 /\ col' = 0 /\ held' = 0 /\ over' = FALSE
  /\ IF held = 0 /\ ~over THEN UNCHANGED <<legacy, replies>> ELSE Answer(row, over)
  /\ UNCHANGED <<lines, ends, buffered>>

MNext == fill_buf \/ read_line \/ end_of_input
MSpec == MInit /\ [][MNext]_mcpVars
-----------------------------------------------------------------------------
\* Told of the lines alone: which are read, which of those are owed an answer, and when
\* the handshake has been made.
Readable(l) == l.len <= LINE_CAP /\ l.text = "utf8"
Asks(l) == \/ l.json # "object"
           \/ l.id # "none" /\ (l.rpc => l.id = "ok" \/ l.method # Absent)
Owed(l) == \/ l.len > LINE_CAP
           \/ l.len <= LINE_CAP /\ l.text = "bytes"
           \/ Readable(l) /\ Asks(l)
Handshake(l) == Readable(l) /\ Acts(l) /\ l.method = "initialize"

\* However the bytes are cut into chunks, the lines read so far that ask for an answer
\* have one each, in their order and under their own id, and nothing else was written; a
\* line that is too long costs its own answer and no other line's.  A request that
\* carries its version is answered as a server without any history would, and one that
\* carries none is served just when a well-formed handshake went before (mcp.rs:
\* "Modern requests carry everything they need"; read_line, handle_line, era_of).
AnsweredInOrder ==
  /\ {replies[k].row : k \in DOMAIN replies} = {r \in 1 .. row - 1 : Owed(lines[r]) /\ lines[r].len > 0}
  /\ \A k, l \in DOMAIN replies : k < l => replies[k].row < replies[l].row
  /\ \A k \in DOMAIN replies :
       LET l == lines[replies[k].row]
           known == Readable(l) /\ l.json = "object" /\ l.id = "ok"
       IN  /\ replies[k].id = IF known THEN replies[k].row ELSE Null
           /\ Readable(l) /\ Acts(l) /\ l.method # "initialize" =>
                /\ l.meta = "modern" => replies[k].body = request(l, Absent)
                /\ l.meta = "none" =>
                     (replies[k].body = [error |-> "INVALID_PARAMS"]
                        <=> \/ ~\E r \in 1 .. replies[k].row - 1 : Handshake(lines[r])
                            \/ l.method = "tools/call" /\ (l.call = Absent \/ l.call.tool \notin Tools))

\* A document a tool answers with says how much of the review it is: what it lists is the
\* first of the files that were asked for, with what it leaves out counted, its totals
\* are those of the files that were asked for, it is whole only within the cap, and it is
\* sealed over the whole patch either way (mcp.rs: review_tool_with, rank_tool_with).
DocumentSaysWhatItIs ==
  \A k \in DOMAIN replies :
    LET call == lines[replies[k].row].call
        doc == replies[k].body.result.doc
        asked == IF "paths" \in DOMAIN call.args
                 THEN FilesAt(call.files, call.args.paths) ELSE call.files
    IN  /\ "result" \in DOMAIN replies[k].body
        /\ lines[replies[k].row].method = "tools/call"
        /\ call.tool \in {"review_patch", "rank_patch"}
        /\ replies[k].body.result.ok
        => /\ IsPrefix(doc.files, asked) /\ Len(doc.files) + doc.omitted = Len(asked)
           /\ doc.summary = line_counts(asked)
           /\ doc.form = "full" => doc.omitted = 0 /\ Summed(doc.files, "size") <= REVIEW_FULL_CAP
           /\ doc.seal = call.files
           /\ call.tool = "rank_patch" => Summed(doc.files, "size") <= REVIEW_FULL_CAP

\* Every line of a client gets its one answer, and a document in it says what it is.
OneAnswerPerLine == AnsweredInOrder /\ DocumentSaysWhatItIs
=============================================================================
