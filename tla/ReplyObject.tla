----------------------------- MODULE ReplyObject -----------------------------
(***************************************************************************)
(* extract_json_object(): the first JSON object in a model's reply to the  *)
(* triage, from the first brace to the one that closes it, but for braces  *)
(* in strings.  A reply is a sequence of the characters the code tells     *)
(* apart, by their names: the opening and the closing brace, the quote,    *)
(* the backslash (escape) and all others (x).                              *)
(***************************************************************************)
EXTENDS Integers, SequencesExt

(* Deviation: a backslash is a character like others. *)
Scan_unescaped(st, c) ==
  IF st.done THEN st
  ELSE CASE c = "quote"                     -> [st EXCEPT !.inString = ~@, !.len = @ + 1]
         [] c = "open" /\ ~st.inString      -> [st EXCEPT !.depth = @ + 1, !.len = @ + 1]
         [] c = "close" /\ ~st.inString     -> [st EXCEPT !.depth = @ - 1, !.len = @ + 1,
                                                  !.done = st.depth = 1]
         [] OTHER                           -> [st EXCEPT !.len = @ + 1]

Scan(st, c) ==
  IF st.done THEN st
  ELSE IF st.escaped THEN [st EXCEPT !.escaped = FALSE, !.len = @ + 1]
  ELSE CASE c = "escape" /\ st.inString     -> [st EXCEPT !.escaped = TRUE, !.len = @ + 1]
         [] c = "quote"                     -> [st EXCEPT !.inString = ~@, !.len = @ + 1]
         [] c = "open" /\ ~st.inString      -> [st EXCEPT !.depth = @ + 1, !.len = @ + 1]
         [] c = "close" /\ ~st.inString     -> [st EXCEPT !.depth = @ - 1, !.len = @ + 1,
                                                  !.done = st.depth = 1]
         [] OTHER                           -> [st EXCEPT !.len = @ + 1]

(* The empty text stands for none. *)
ExtractJsonObject(s) ==
  IF "open" \notin ToSet(s) THEN <<>>
  ELSE LET t == SubSeq(s, SelectInSeq(s, LAMBDA c : c = "open"), Len(s))
           end == FoldLeft(Scan, [depth |-> 0, inString |-> FALSE, escaped |-> FALSE,
                                  len |-> 0, done |-> FALSE], t)
       IN  IF end.done THEN SubSeq(t, 1, end.len) ELSE <<>>

=============================================================================
