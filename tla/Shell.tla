------------------------------- MODULE Shell --------------------------------
(***************************************************************************)
(* The shell: a line is divided into tokens, parsed and run, a command     *)
(* that is not built in by a child process, whose end the shell learns     *)
(* from the message that kill sends to the parent.                         *)
(*                                                                         *)
(* The first shell has priority 50, the one that main creates after its    *)
(* end has the 20 of the commands: children then run between its steps.    *)
(***************************************************************************)
EXTENDS Integers, Sequences, FiniteSets, SequencesExt

CONSTANTS
  Lines,        \* the lines typed: sequences of [t, sp], sp for a blank after the token
  SHELL_MAXTOK,
  Children,     \* process IDs for commands
  Names,        \* whether redirected files exist: FALSE, or both
  Kinds,        \* what the first token names in the command table
  KillSends,    \* kill sends the message whoever created the process
  NONE

VARIABLES
  pc,
  typed,        \* the tokens of the line as they were typed
  line, p,      \* buf, and the position lexan has reached
  tokbuf, tok, toktyp,
  cmd,          \* [backgnd, inname, outname, ntok, tlen]
  kids,         \* the processes of commands
  child,        \* the one created last
  mbox,         \* prmsg of the shell
  open,         \* files in use
  leaked,       \* files opened for a command that was then given up
  prio          \* of the shell

lexvars == <<typed, line, p, tokbuf, tok, toktyp>>
vars == <<pc, lexvars, cmd, kids, child, mbox, open, leaked, prio>>

Text(t) == CASE t = "word" -> <<"x">> [] t = "quoted" -> <<"a", " ", "<">> [] OTHER -> <<t>>
Typed(e) ==
  (CASE e.t = "quoted" -> <<"'">> \o Text(e.t) \o <<"'">>
     [] e.t = "unclosed" -> <<"'", "a">>
     [] OTHER -> Text(e.t))
  \o (IF e.sp THEN <<" ">> ELSE <<>>)
Chars(l) == FoldLeft(LAMBDA s, e : s \o Typed(e), <<>>, l)

Free == [st |-> "free", in |-> NONE, out |-> NONE, args |-> <<>>, strings |-> <<>>, ours |-> TRUE]
NoCmd == [backgnd |-> FALSE, inname |-> 0, outname |-> 0, ntok |-> 0, tlen |-> 0]

Init ==
  /\ pc = "prompt"
  /\ typed = <<>> /\ line = <<>> /\ p = 1
  /\ tokbuf = <<>> /\ tok = <<>> /\ toktyp = <<>>
  /\ cmd = NoCmd
  /\ kids = [c \in Children |-> Free]
  /\ child = NONE
  /\ mbox = NONE
  /\ open = {} /\ leaked = {}
  /\ prio = 50

\* Back to the prompt; what the line left in the variables is not read again.
Continue ==
  /\ pc' = "prompt"
  /\ typed' = <<>> /\ line' = <<>> /\ p' = 1
  /\ tokbuf' = <<>> /\ tok' = <<>> /\ toktyp' = <<>>
  /\ cmd' = NoCmd

\* read gives a line, NEWLINE at its end; an empty one is passed over.
ReadLine ==
  /\ pc = "prompt"
  /\ \E l \in Lines :
       /\ typed' = l
       /\ line' = Append(Chars(l), "\n")
  /\ pc' = IF Len(line') <= 1 THEN "prompt" ELSE "lexan"
  /\ UNCHANGED <<p, tokbuf, tok, toktyp, cmd, kids, child, mbox, open, leaked, prio>>

EndOfFile ==
  /\ pc = "prompt"
  /\ pc' = "closed"
  /\ UNCHANGED <<lexvars, cmd, kids, child, mbox, open, leaked, prio>>

-----------------------------------------------------------------------------
\* The first position from q on that is not in / is in a set of characters.
Beyond(q, set) == CHOOSE x \in q..Len(line) : line[x] \notin set /\ \A y \in q..(x - 1) : line[y] \in set
Find(q, set) == CHOOSE x \in q..Len(line) : line[x] \in set /\ \A y \in q..(x - 1) : line[y] \notin set

Lexing == pc = "lexan" /\ line[p] # "\n"
TooManyNever == FALSE
TooMany == Len(tok) >= SHELL_MAXTOK
q0 == Beyond(p, {" "})

Token(typ, text, next) ==
  /\ tok' = Append(tok, Len(tokbuf))
  /\ toktyp' = Append(toktyp, typ)
  /\ tokbuf' = tokbuf \o Append(text, "NUL")
  /\ p' = next
  /\ UNCHANGED <<pc, typed, line, cmd, kids, child, mbox, open, leaked, prio>>

SyntaxError == Continue /\ UNCHANGED <<kids, child, mbox, open, leaked, prio>>

lexan_operator ==
  /\ Lexing /\ ~ TooMany /\ line[q0] \in {"&", "<", ">"}
  /\ Token(line[q0], <<line[q0]>>, q0 + 1)

lexan_quoted ==
  /\ Lexing /\ ~ TooMany /\ line[q0] = "'"
  /\ LET e == Find(q0 + 1, {"'", "\n"})
     IN IF line[e] = "'" THEN Token("other", SubSeq(line, q0 + 1, e - 1), e + 1) ELSE SyntaxError

lexan_word ==
  /\ Lexing /\ ~ TooMany /\ line[q0] \notin {"&", "<", ">", "'", "\n"}
  /\ LET e == Find(q0 + 1, {"\n", "<", ">", " ", "&", "'"})
     IN IF line[e] \in {"'", "<", ">"} THEN SyntaxError ELSE Token("other", SubSeq(line, q0, e - 1), e)

lexan_toomany == Lexing /\ TooMany /\ SyntaxError

\* The line is at its end, or only blanks are left: what the shell makes of the tokens.
AtEnd == pc = "lexan" /\ (line[p] = "\n" \/ (~ TooMany /\ line[q0] = "\n"))

\* Up to two redirections at the end, from c on: [ntok, tlen, in, out, ok].
Redirects(c) == c.ntok >= 3 /\ toktyp[c.ntok - 1] \in {"<", ">"}
DataEndLess(n) == tok[n + 1] - 1
DataEnd(n) == tok[n + 1]
Redirect(c) ==
  IF ~ c.ok \/ ~ Redirects(c) THEN c
  ELSE LET less == toktyp[c.ntok - 1] = "<"
       IN IF toktyp[c.ntok] # "other" \/ (less /\ c.inname # 0) \/ (~ less /\ c.outname # 0)
          THEN [c EXCEPT !.ok = FALSE]
          ELSE [c EXCEPT !.ntok = @ - 2, !.tlen = DataEnd(c.ntok - 2),
                         !.inname = IF less THEN c.ntok ELSE @,
                         !.outname = IF less THEN @ ELSE c.ntok]

Parsed ==
  LET backgnd == Last(toktyp) = "&"
  IN Redirect(Redirect(
       [backgnd |-> backgnd, inname |-> 0, outname |-> 0, ok |-> TRUE,
        ntok |-> IF backgnd THEN Len(tok) - 1 ELSE Len(tok),
        tlen |-> IF backgnd THEN Len(tokbuf) - 2 ELSE Len(tokbuf)]))
Accepted == tok # <<>> /\ Parsed.ok /\ Parsed.ntok # 0 /\ \A i \in 1..Parsed.ntok : toktyp[i] = "other"

parse ==
  /\ AtEnd
  /\ IF Accepted
     THEN /\ cmd' = [f \in DOMAIN NoCmd |-> Parsed[f]]
          /\ pc' = "lookup"
          /\ UNCHANGED <<lexvars, kids, child, mbox, open, leaked, prio>>
     ELSE SyntaxError

-----------------------------------------------------------------------------
\* The command table: not found, built in, or run by a child.
Plain == cmd.inname = 0 /\ cmd.outname = 0 /\ ~ cmd.backgnd

NotFound == pc = "lookup" /\ "notfound" \in Kinds /\ SyntaxError

\* A built-in command, or the refusal of one with redirection or in the background.
Builtin == pc = "lookup" /\ "builtin" \in Kinds /\ SyntaxError

xsh_exit ==
  /\ pc = "lookup" /\ "builtin" \in Kinds /\ Plain
  /\ pc' = "closed"
  /\ UNCHANGED <<lexvars, cmd, kids, child, mbox, open, leaked, prio>>

Closing == [c \in Children |-> IF kids[c].st = "free" THEN {} ELSE {kids[c].in, kids[c].out} \ {NONE}]

\* The built-in kill of a command in the background: the message comes to the shell
\* itself.  The victim may be a child that is ending.
xsh_kill ==
  /\ pc = "lookup" /\ "builtin" \in Kinds /\ Plain
  /\ \E c \in Children :
       /\ kids[c].st # "free"
       /\ mbox' = IF KillSends /\ kids[c].ours /\ mbox = NONE THEN c ELSE mbox
       /\ kids' = [kids EXCEPT ![c] = Free]
       /\ open' = open \ Closing[c]
  /\ Continue
  /\ UNCHANGED <<child, leaked, prio>>

\* open(NAMESPACE, ...): fails if the file cannot be opened or is in use.
ExternalCommand == pc = "lookup" /\ "external" \in Kinds

OpenInput ==
  /\ ExternalCommand /\ cmd.inname # 0
  /\ \/ /\ TRUE \in Names /\ "in" \notin open
        /\ open' = open \union {"in"}
        /\ pc' = "output"
        /\ UNCHANGED <<lexvars, cmd, kids, child, mbox, leaked, prio>>
     \/ /\ FALSE \in Names \/ "in" \in open
        /\ SyntaxError

NoInput ==
  /\ ExternalCommand /\ cmd.inname = 0
  /\ pc' = "output"
  /\ UNCHANGED <<lexvars, cmd, kids, child, mbox, open, leaked, prio>>

\* A failure for the output leaves the input open.
Given == IF cmd.inname # 0 THEN {"in"} ELSE {}
Wanted == IF cmd.outname # 0 THEN {"out"} ELSE {}
OpenOutput ==
  /\ pc = "output"
  /\ \/ /\ cmd.outname = 0 \/ (TRUE \in Names /\ "out" \notin open)
        /\ open' = open \union Wanted
        /\ pc' = "create"
        /\ UNCHANGED <<lexvars, cmd, kids, child, mbox, leaked, prio>>
     \/ /\ cmd.outname # 0
        /\ FALSE \in Names \/ "out" \in open
        /\ leaked' = leaked \union Given
        /\ Continue
        /\ UNCHANGED <<kids, child, mbox, open, prio>>

\* addargs copies tlen bytes of the tokens; it refuses no arguments and no data.
addargs == [args |-> SubSeq(tok, 1, cmd.ntok), strings |-> SubSeq(tokbuf, 1, cmd.tlen)]
ArgsRefused == cmd.ntok <= 0 \/ cmd.tlen < 0

\* create takes a free process, or fails; the descriptors are set and a message that an
\* earlier command left is dropped.
Create ==
  /\ pc = "create"
  /\ IF \A c \in Children : kids[c].st # "free"
     THEN /\ leaked' = leaked \union Given \union Wanted
          /\ Continue
          /\ UNCHANGED <<kids, child, mbox, open, prio>>
     ELSE /\ \E c \in Children :
               /\ kids[c].st = "free"
               /\ child' = c
               /\ kids' = [kids EXCEPT ![c] =
                    [st |-> "suspended", ours |-> TRUE,
                     in |-> IF cmd.inname # 0 THEN "in" ELSE NONE,
                     out |-> IF cmd.outname # 0 THEN "out" ELSE NONE,
                     args |-> addargs.args, strings |-> addargs.strings]]
          /\ pc' = "recvclr"
          /\ UNCHANGED <<lexvars, cmd, mbox, open, leaked, prio>>

KeptMessage == mbox
ClearedMessage == NONE
recvclr ==
  /\ pc = "recvclr"
  /\ mbox' = ClearedMessage
  /\ pc' = "resume"
  /\ UNCHANGED <<lexvars, cmd, kids, child, open, leaked, prio>>

\* Resumed, the child runs; in the foreground the shell waits for its message.
Resume ==
  /\ pc = "resume"
  /\ kids' = [kids EXCEPT ![child].st = "ready"]
  /\ IF cmd.backgnd THEN Continue
     ELSE pc' = "waiting" /\ UNCHANGED <<lexvars, cmd>>
  /\ UNCHANGED <<child, mbox, open, leaked, prio>>

IsChild(m) == m = child
Receive ==
  /\ pc = "waiting" /\ mbox # NONE
  /\ mbox' = NONE
  /\ IF IsChild(mbox) THEN Continue ELSE UNCHANGED <<pc, lexvars, cmd>>
  /\ UNCHANGED <<kids, child, open, leaked, prio>>

\* main waits for the end of the shell and creates another one, of priority 20.
main ==
  /\ pc = "closed"
  /\ prio' = 20
  /\ mbox' = NONE
  /\ child' = NONE
  /\ kids' = [c \in Children |-> [kids[c] EXCEPT !.ours = kids[c].st = "free"]]
  /\ Continue
  /\ UNCHANGED <<open, leaked>>

ShellSteps ==
  \/ lexan_operator \/ lexan_quoted \/ lexan_word \/ lexan_toomany \/ parse
  \/ NotFound \/ Builtin \/ xsh_exit \/ xsh_kill \/ OpenInput \/ NoInput \/ OpenOutput
  \/ Create \/ recvclr \/ Resume \/ Receive

-----------------------------------------------------------------------------
\* A child runs when the shell is blocked, or has its priority.
CanRun == prio = 20 \/ pc \in {"prompt", "closed"} \/ (pc = "waiting" /\ mbox = NONE)

\* The end of a command, kill of itself: the message first, if there is room for it; the
\* shell that receives it runs before the files are closed.
Ends(c) ==
  /\ kids[c].st = "ready" /\ CanRun
  /\ LET sends == KillSends /\ kids[c].ours /\ pc # "closed" /\ mbox = NONE
     IN /\ mbox' = IF sends THEN c ELSE mbox
        /\ IF sends /\ pc = "waiting"
           THEN kids' = [kids EXCEPT ![c].st = "ending"] /\ UNCHANGED open
           ELSE kids' = [kids EXCEPT ![c] = Free] /\ open' = open \ Closing[c]
  /\ UNCHANGED <<pc, lexvars, cmd, child, leaked, prio>>

ClosedInput(c) == {kids[c].in} \ {NONE}
ClosedFiles(c) == Closing[c]
Closes(c) ==
  /\ kids[c].st = "ending" /\ CanRun
  /\ kids' = [kids EXCEPT ![c] = Free]
  /\ open' = open \ ClosedFiles(c)
  /\ UNCHANGED <<pc, lexvars, cmd, child, mbox, leaked, prio>>

Next ==
  \/ ReadLine \/ EndOfFile \/ ShellSteps \/ main
  \/ \E c \in Children : Ends(c) \/ Closes(c)

\* The shell goes on unless it waits for a line.
Fairness == WF_vars(ShellSteps)

-----------------------------------------------------------------------------
\* The grammar in the comment of shell.c, over the tokens as typed.
IsText(t) == t \in {"word", "quoted"}
Body == [k \in 1..(IF typed # <<>> /\ Last(typed).t = "&" THEN Len(typed) - 1 ELSE Len(typed)) |-> typed[k].t]
Redirection(s) == s = <<>> \/ (Len(s) = 2 /\ s[1] \in {"<", ">"} /\ IsText(s[2]))
Grammatical ==
  /\ Len(Body) >= 1
  /\ \E n \in 1..Len(Body) :
       /\ \A k \in 1..n : IsText(Body[k])
       /\ LET rest == SubSeq(Body, n + 1, Len(Body))
          IN \/ Redirection(rest)
             \/ /\ Len(rest) = 4
                /\ Redirection(SubSeq(rest, 1, 2)) /\ Redirection(SubSeq(rest, 3, 4))
                /\ rest[1] # rest[3]
Words == CHOOSE n \in 0..Len(Body) :
           (\A k \in 1..n : IsText(Body[k])) /\ (n = Len(Body) \/ ~ IsText(Body[n + 1]))

\* A word may not be followed at once by a quote or a redirection; the number of tokens is
\* bounded, and at the bound a blank at the end is one too many.
WellSpaced ==
  /\ \A k \in 1..(Len(typed) - 1) : typed[k].t = "word" /\ ~ typed[k].sp => typed[k + 1].t = "&"
  /\ \A k \in DOMAIN typed : typed[k].t # "unclosed"
  /\ Len(typed) < SHELL_MAXTOK \/ (Len(typed) = SHELL_MAXTOK /\ ~ Last(typed).sp)

\* The string at an index of the token buffer.
StringAt(buf, k) ==
  LET ends == {e \in (k + 1)..Len(buf) : buf[e] = "NUL"}
  IN IF ends = {} THEN <<"unended">> ELSE SubSeq(buf, k + 1, (CHOOSE e \in ends : \A y \in ends : e <= y) - 1)

\* lexan and the shell accept exactly the lines of the grammar, and the command is given
\* the words and the file names that were typed, quoted ones with their blanks, in the
\* copy on its stack too, which ends where the redirections began.
RunsWhatWasTyped ==
  /\ pc = "lookup" =>
       /\ WellSpaced /\ Grammatical
       /\ cmd.ntok = Words
       /\ cmd.backgnd = (Last(typed).t = "&")
       /\ (cmd.inname # 0) = (\E k \in DOMAIN typed : typed[k].t = "<")
       /\ (cmd.outname # 0) = (\E k \in DOMAIN typed : typed[k].t = ">")
       /\ cmd.inname # 0 => typed[cmd.inname - 1].t = "<"
       /\ cmd.outname # 0 => typed[cmd.outname - 1].t = ">"
       /\ ~ ArgsRefused
       /\ \A k \in 1..cmd.ntok :
            StringAt(SubSeq(tokbuf, 1, cmd.tlen), tok[k]) = Text(typed[k].t)
       /\ \A k \in {cmd.inname, cmd.outname} \ {0} : StringAt(tokbuf, tok[k]) = Text(typed[k].t)
  /\ AtEnd => (Accepted = Grammatical) /\ WellSpaced

\* The tokens stay in the arrays the shell has for them: at most SHELL_MAXTOK indexes and
\* one byte per token more than the line has.
TokensFit == Len(tok) <= SHELL_MAXTOK /\ (pc = "lexan" => Len(tokbuf) <= Len(line) - 1 + Len(tok))

\* A file that was opened for a command is closed when the command has ended; only those
\* of a command that could not be started because another file or a process was missing
\* stay open for ever.
FilesClosed ==
  open \ leaked \subseteq UNION {Closing[c] : c \in Children}
                           \union (IF pc \in {"output", "create"} THEN {"in", "out"} ELSE {})

\* The prompt does not come back while the command in the foreground runs: a message of
\* an earlier process with the same ID is not taken for its end.
NoEarlyPrompt == [][pc = "waiting" /\ pc' # "waiting" => kids[child].st # "ready"]_vars

\* The shell learns that the command it waits for has ended: kill's message finds the
\* mailbox empty, because recvclr emptied it and the shell takes every other message
\* before a child can run again.  (The shell that main creates after an exit has the
\* priority of its children, and may wait for ever.)
PromptReturns ==
  (pc = "waiting" /\ prio = 50 /\ kids[child].st # "ready") ~> pc # "waiting"

=============================================================================
