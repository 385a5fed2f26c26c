---------------------------- MODULE FlexScanner -----------------------------
(***************************************************************************)
(* The scanners that flex generated for yacc_lab/example6.l and for        *)
(* llvm-lab/tokens.l. They share all but the rules: buffers that are       *)
(* filled from a stream, moved and grown at their end, a stack of them,    *)
(* and yylex, which matches the longest lexeme and backs up. The tables of *)
(* the automaton are modelled by the language they accept, over classes of *)
(* characters: e x f the beginning, the middle and the end of the word     *)
(* expect-floats, a another letter, d a digit, n a newline, = and .        *)
(* themselves. A NUL is a character that no rule names, and what marks the *)
(* end of a buffer. What a buffer was fed and what tokens were taken from  *)
(* it is kept as history.                                                  *)
(***************************************************************************)
EXTENDS Integers, Sequences, FiniteSets, SequencesExt, FiniteSetsExt

CONSTANTS
  StreamTexts,      \* for each scanner, the contents of each input stream
  Streams,       \* FILE objects
  Tty,           \* the streams that are terminals
  Stdin,         \* the stream used when none is given
  BufferIds,     \* addresses of yy_buffer_state objects
  BufSizes,      \* sizes given to yy_create_buffer
  ScanStrings,   \* strings given to yy_scan_bytes
  YY_BUF_SIZE,   \* size of the first buffer
  MaxPushed,     \* bound on the buffer stack
  NoBuf          \* a null buffer, or stream

ASSUME ScannerAssumption ==
  YY_BUF_SIZE \in Nat \ {0} /\ BufSizes \subseteq Nat \ {0} /\ Stdin \in Streams /\ <<>> \notin ScanStrings

VARIABLES
  scanner,   \* "example6" or "tokens"
  yy_start,  \* the start condition
  yy_init,   \* yylex has initialised itself
  yyin,      \* the stream YY_INPUT reads
  unread,    \* what is left in each stream
  buf,       \* live buffers, with what they were fed and what was taken as tokens
  stack,     \* yy_buffer_stack, of length yy_buffer_stack_max
  top,       \* yy_buffer_stack_top
  g,         \* yy_n_chars, yytext_ptr and yy_c_buf_p, as positions in the current buffer
  phase,     \* where yylex is: "out", "match", "end_of_buffer", "last_match"
  last       \* the token just taken: start condition, text and rule; or NoBuf

inputVars == <<yyin, unread>>
flexVars == <<scanner, yy_start, yy_init, inputVars, buf, stack, top, g, phase, last>>

-----------------------------------------------------------------------------
(* The rules, as the languages of the automata *)

Digits(s) == s # <<>> /\ \A i \in DOMAIN s : s[i] = "d"
DigitsDot(s) == \E i \in DOMAIN s : s[i] = "." /\ Digits(SubSeq(s, 1, i - 1)) /\ \A j \in i + 1 .. Len(s) : s[j] = "d"
\* [0-9]+.[0-9]* with an unquoted dot: digits, any character but a newline, digits.
DigitsAny(s) == \E i \in 2 .. Len(s) : s[i] # "n" /\ Digits(SubSeq(s, 1, i - 1)) /\ \A j \in i + 1 .. Len(s) : s[j] = "d"

\* The rule that accepts s, or 0; the first one wins. Rule 6 is ECHO.
Accept6(sc, s) ==
  IF s = <<"e", "x", "f">> THEN 1
  ELSE IF sc = "expect" /\ s = <<"n">> THEN 2
  ELSE IF sc = "expect" /\ DigitsDot(s) /\ s[Len(s)] = "d" THEN 3
  ELSE IF Digits(s) THEN 4
  ELSE IF s = <<".">> THEN 5
  ELSE IF Len(s) = 1 THEN 6 ELSE 0
\* Neither the word without its end nor digits and a dot are accepted themselves.
Prefix6(sc, s) ==
  Len(s) = 1 \/ s \in {<<"e", "x">>, <<"e", "x", "f">>} \/ Digits(s) \/ (sc = "expect" /\ DigitsDot(s))

\* White space, an identifier of exactly two characters, a number, "=", "==", ".", and rule 21
\* for any other character, which ends the scan.
Letters == {"a", "e", "x", "f"}
AcceptTokens(s) ==
  IF s = <<"n">> THEN 1
  ELSE IF Len(s) = 2 /\ s[1] \in Letters /\ s[2] \in Letters \cup {"d"} THEN 2
  ELSE IF DigitsAny(s) THEN 3
  ELSE IF s = <<"=">> THEN 4 ELSE IF s = <<"=", "=">> THEN 5 ELSE IF s = <<".">> THEN 15
  ELSE IF Len(s) = 1 THEN 21 ELSE 0
PrefixTokens(s) == Len(s) = 1 \/ AcceptTokens(s) # 0 \/ Digits(s)

Accept(sc, s) == IF scanner = "example6" THEN Accept6(sc, s) ELSE AcceptTokens(s)
IsLexemePrefix(sc, s) == IF scanner = "example6" THEN Prefix6(sc, s) ELSE PrefixTokens(s)
Alphabet == {"e", "x", "f", "a", "d", ".", "n", "=", "NUL"}
CanGoOn(sc, s) == \E c \in Alphabet : IsLexemePrefix(sc, Append(s, c))

\* How many characters the automaton takes before it jams.
Taken(sc, s) == Max({k \in 0 .. Len(s) : \A j \in 1 .. k : IsLexemePrefix(sc, SubSeq(s, 1, j))})

\* The characters of s before the first NUL behind the m that were taken: a NUL of the input, or
\* the one behind the end of the buffer, which looks the same.
BeforeNul(s, m) == SubSeq(s, 1, Min({i - 1 : i \in {j \in m + 1 .. Len(s) : s[j] = "NUL"}} \cup {Len(s)}))

NulTrans(sc, s) == IsLexemePrefix(sc, Append(s, "NUL"))

\* With m characters taken, the automaton takes all of s and reads the NUL behind it: it takes one
\* step at least, and stops early where it jams or where no character can follow.
ReachesNul(sc, s, m) == Taken(sc, s) = Len(s) /\ (Len(s) = m \/ CanGoOn(sc, s))

\* Variant: the lexeme is all that the automaton took.
MatchLenAll(sc, s) == Taken(sc, s)

\* Backing up to yy_last_accepting_cpos.
MatchLen(sc, s) == Max({j \in 1 .. Taken(sc, s) : Accept(sc, SubSeq(s, 1, j)) # 0})

-----------------------------------------------------------------------------
(* Buffers *)

Current == IF stack = <<>> THEN NoBuf ELSE stack[top + 1]
FreeIds == BufferIds \ DOMAIN buf
Globals(r) == [n |-> r.n, text |-> r.pos, cp |-> r.pos]

\* yy_flush_buffer and yy_init_buffer, which flushes.
Flushed(r) == [r EXCEPT !.n = 0, !.chars = <<>>, !.pos = 0, !.status = "NEW", !.fed = <<>>, !.out = <<>>]
InitBuffer(r, f) == [Flushed(r) EXCEPT !.file = f, !.fill = TRUE]
NewBuffer(f, size) ==
  [file |-> f, chars |-> <<>>, n |-> 0, size |-> size, pos |-> 0, fill |-> TRUE, own |-> TRUE, status |-> "NEW",
   fed |-> <<>>, out |-> <<>>]
\* yy_scan_buffer: a buffer that is not filled again.
StringBuffer(s) == [NewBuffer(NoBuf, Len(s)) EXCEPT !.chars = s, !.n = Len(s), !.fill = FALSE, !.fed = s]

\* yyensure_buffer_stack: room for one more.
EnsuredStack ==
  IF stack = <<>> THEN <<NoBuf>>
  ELSE IF top >= Len(stack) - 1 THEN stack \o [i \in 1 .. 8 |-> NoBuf] ELSE stack

\* Variant: the position in the buffer that is left is not saved.
SavedUnmoved(b) == b

\* What yy_switch_to_buffer and yypush_buffer_state save of the current buffer.
Saved(b) == IF Current = NoBuf THEN b ELSE [b EXCEPT ![Current].pos = g.cp, ![Current].n = g.n]

\* yy_load_buffer_state of buffer i in b.
LoadState(b, i) == g' = Globals(b[i]) /\ yyin' = b[i].file

-----------------------------------------------------------------------------
(* yylex *)

InYylex == UNCHANGED <<scanner, stack, top, yy_init>>

\* The first call makes a buffer on yyin unless there is one. Callers give it a buffer otherwise.
Yylex ==
  /\ phase = "out" /\ (Current # NoBuf \/ ~yy_init)
  /\ yy_init' = TRUE /\ phase' = "match"
  /\ IF yy_init THEN UNCHANGED <<buf, stack, top, g, yyin>>
     ELSE LET in == IF yyin = NoBuf THEN Stdin ELSE yyin
          IN IF Current # NoBuf THEN LoadState(buf, Current) /\ UNCHANGED <<buf, stack, top>>
             ELSE \E i \in FreeIds :
                    /\ buf' = (i :> NewBuffer(in, YY_BUF_SIZE)) @@ buf
                    /\ stack' = [EnsuredStack EXCEPT ![top + 1] = i] /\ UNCHANGED top
                    /\ LoadState(buf', i)
  /\ last' = NoBuf
  /\ UNCHANGED <<scanner, yy_start, unread>>

\* A rule's action, on the next k characters of the current buffer b. tokens.l returns after each
\* token but white space.
Emit(b, k) ==
  LET text == SubSeq(b.chars, g.text + 1, g.text + k)
      rule == Accept(yy_start, text)
  IN /\ last' = [sc |-> yy_start, text |-> text, rule |-> rule]
     /\ buf' = [buf EXCEPT ![Current] = [b EXCEPT !.out = @ \o text]]
     /\ g' = [g EXCEPT !.text = g.text + k, !.cp = g.text + k]
     /\ yy_start' = IF scanner = "example6" /\ rule = 1 THEN "expect"
                    ELSE IF scanner = "example6" /\ rule = 2 THEN "INITIAL" ELSE yy_start
     /\ phase' = IF scanner = "tokens" /\ rule # 1 THEN "out" ELSE "match"
     /\ UNCHANGED <<inputVars>> /\ InYylex

\* What is in the buffer from yytext_ptr on, and up to the NUL the automaton runs into.
Ahead == SubSeq(buf[Current].chars, g.text + 1, g.n)
Run == BeforeNul(Ahead, g.cp - g.text)

\* The automaton runs to a lexeme, or into a NUL.
Match ==
  /\ phase = "match"
  /\ IF ReachesNul(yy_start, Run, g.cp - g.text)
     THEN /\ g' = [g EXCEPT !.cp = g.text + Len(Run) + 1]
          /\ phase' = "end_of_buffer"
          /\ last' = NoBuf
          /\ UNCHANGED <<yy_start, inputVars, buf>> /\ InYylex
     ELSE Emit(buf[Current], MatchLen(yy_start, Run))

\* EOB_ACT_LAST_MATCH: the end is the end; what is there is matched.
MatchLast == phase = "last_match" /\ Emit(buf[Current], MatchLen(yy_start, Ahead))

\* YY_INPUT of at most max characters: to the end of the line from a terminal, where an end of
\* file can be typed at any point; all that fits from a file.
LineEnd(s) == Min({i \in DOMAIN s : s[i] = "n"} \cup {Len(s)})
ReadSizes(f, max) ==
  IF f \in Tty THEN 0 .. Min({max, LineEnd(unread[f])}) ELSE {Min({max, Len(unread[f])})}

\* The buffer is doubled while there is no room for a character behind what is kept.
Grown(size, keep) == size * 2^Min({i \in 0 .. keep + 1 : size * 2^i - keep - 1 > 0})

\* yy_get_next_buffer when the buffer may be filled: the unfinished lexeme is moved to the front
\* and more is read behind it; no more means the last match or the end of file.
Refilled(b, keep, more) ==
  [b EXCEPT !.chars = keep \o more, !.n = Len(keep) + Len(more), !.fed = @ \o more,
            !.status = IF more = <<>> THEN "EOF_PENDING" ELSE "NORMAL"]

Refill(b) ==
  LET keep == Ahead
      size == IF b.status = "EOF_PENDING" THEN b.size ELSE Grown(b.size, Len(keep))
  IN \E r \in IF b.status = "EOF_PENDING" THEN {0} ELSE ReadSizes(yyin, size - Len(keep) - 1) :
       LET more == SubSeq(unread[yyin], 1, r)
       IN /\ unread' = [unread EXCEPT ![yyin] = SubSeq(@, r + 1, Len(@))]
          /\ IF r = 0 /\ keep = <<>>
             THEN \* yyrestart(yyin); yywrap says there is no other file: yylex returns 0
                  /\ buf' = [buf EXCEPT ![Current] = InitBuffer([b EXCEPT !.size = size], yyin)]
                  /\ g' = [n |-> 0, text |-> 0, cp |-> 0] /\ phase' = "out"
             ELSE /\ buf' = [buf EXCEPT ![Current] = Refilled([b EXCEPT !.size = size], keep, more)]
                  /\ g' = [n |-> Len(keep) + r, text |-> 0, cp |-> Len(keep)]
                  /\ phase' = IF r = 0 THEN "last_match" ELSE "match"

\* The first end of a new buffer: from now on it is read from yyin.
Opened(b) == IF b.status = "NEW" THEN [b EXCEPT !.file = yyin, !.status = "NORMAL"] ELSE b

\* It was really a NUL of the input: it is taken if the lexeme can go on with it, or else ends it.
ReallyNul ==
  LET before == SubSeq(Ahead, 1, g.cp - g.text - 1)
  IN IF NulTrans(yy_start, before)
     THEN /\ buf' = [buf EXCEPT ![Current] = Opened(@)]
          /\ phase' = "match" /\ last' = NoBuf
          /\ UNCHANGED <<yy_start, inputVars, g>> /\ InYylex
     ELSE Emit(Opened(buf[Current]), MatchLen(yy_start, before))

EndOfBuffer ==
  /\ phase = "end_of_buffer"
  /\ \/ g.cp <= g.n /\ ReallyNul
     \/ /\ g.cp > g.n /\ last' = NoBuf
        /\ IF buf[Current].fill THEN Refill(Opened(buf[Current]))
           ELSE \* a string: its end is the end
                /\ buf' = [buf EXCEPT ![Current] = Opened(@)]
                /\ phase' = IF Ahead = <<>> THEN "out" ELSE "last_match"
                /\ g' = [g EXCEPT !.cp = IF Ahead = <<>> THEN g.text ELSE g.n]
                /\ UNCHANGED unread
        /\ UNCHANGED <<yy_start, yyin>> /\ InYylex

-----------------------------------------------------------------------------
(* What the program around yylex may do with buffers *)

Outside == phase = "out" /\ last' = NoBuf /\ UNCHANGED <<scanner, yy_start, phase, unread>>

CreateBuffer(f, size) ==
  /\ Outside
  /\ \E i \in FreeIds : buf' = (i :> NewBuffer(f, size)) @@ buf
  /\ UNCHANGED <<yy_init, yyin, stack, top, g>>

OnStack(i) == \E k \in DOMAIN stack : stack[k] = i

SwitchTo(b, i) ==
  /\ stack' = [EnsuredStack EXCEPT ![top + 1] = i]
  /\ buf' = Saved(b) /\ LoadState(buf', i)
  /\ UNCHANGED <<yy_init, top>>

SwitchToBuffer(i) == Outside /\ ~OnStack(i) /\ SwitchTo(buf, i)

PushBuffer(i) ==
  /\ Outside /\ ~OnStack(i)
  /\ top' = IF Current = NoBuf THEN top ELSE top + 1
  /\ top' < MaxPushed
  /\ stack' = [EnsuredStack EXCEPT ![top' + 1] = i]
  /\ buf' = Saved(buf) /\ LoadState(buf', i)
  /\ UNCHANGED yy_init

Removed(i) == [j \in DOMAIN buf \ {i} |-> buf[j]]
Emptied == [stack EXCEPT ![top + 1] = NoBuf]

PopBuffer ==
  /\ Outside /\ Current # NoBuf
  /\ buf' = Removed(Current) /\ stack' = Emptied
  /\ top' = IF top > 0 THEN top - 1 ELSE 0
  /\ IF Emptied[top' + 1] # NoBuf THEN LoadState(buf', Emptied[top' + 1]) ELSE UNCHANGED <<g, yyin>>
  /\ UNCHANGED yy_init

\* A caller deletes a buffer that is current or not in use.
DeleteBuffer(i) ==
  /\ Outside /\ (i = Current \/ ~OnStack(i))
  /\ buf' = Removed(i)
  /\ stack' = IF i = Current THEN Emptied ELSE stack
  /\ UNCHANGED <<yy_init, yyin, top, g>>

FlushBuffer(i) ==
  /\ Outside
  /\ buf' = [buf EXCEPT ![i] = Flushed(@)]
  /\ IF i = Current THEN LoadState(buf', i) ELSE UNCHANGED <<g, yyin>>
  /\ UNCHANGED <<yy_init, stack, top>>

Restart(f) ==
  /\ Outside
  /\ IF Current # NoBuf
     THEN buf' = [buf EXCEPT ![Current] = InitBuffer(@, f)] /\ LoadState(buf', Current) /\ UNCHANGED stack
     ELSE \E i \in FreeIds :
            /\ buf' = (i :> NewBuffer(f, YY_BUF_SIZE)) @@ buf
            /\ stack' = [EnsuredStack EXCEPT ![top + 1] = i] /\ LoadState(buf', i)
  /\ UNCHANGED <<yy_init, top>>

ScanBytes(s) == Outside /\ \E i \in FreeIds : SwitchTo((i :> StringBuffer(s)) @@ buf, i)

SetIn(f) == Outside /\ yyin' = f /\ UNCHANGED <<yy_init, buf, stack, top, g>>

\* yylex_destroy deletes the current buffer; its slot being empty then, yypop_buffer_state does
\* nothing and the loop ends. The start condition is the first one again.
Destroy ==
  /\ phase = "out" /\ yy_init
  /\ buf' = IF Current = NoBuf THEN buf ELSE Removed(Current)
  /\ stack' = <<>> /\ top' = 0 /\ g' = [n |-> 0, text |-> 0, cp |-> 0]
  /\ yy_init' = FALSE /\ yy_start' = "INITIAL" /\ yyin' = NoBuf
  /\ last' = NoBuf
  /\ UNCHANGED <<scanner, phase, unread>>

-----------------------------------------------------------------------------
FlexInit ==
  /\ scanner \in {"example6", "tokens"}
  /\ yy_start = "INITIAL" /\ yy_init = FALSE /\ yyin = NoBuf
  /\ unread = StreamTexts[scanner]
  /\ buf = [i \in {} |-> 0] /\ stack = <<>> /\ top = 0
  /\ g = [n |-> 0, text |-> 0, cp |-> 0] /\ phase = "out" /\ last = NoBuf

FlexNext ==
  \/ Yylex \/ Match \/ MatchLast \/ EndOfBuffer
  \/ \E f \in Streams : SetIn(f) \/ Restart(f) \/ \E size \in BufSizes : CreateBuffer(f, size)
  \/ \E i \in DOMAIN buf : SwitchToBuffer(i) \/ PushBuffer(i) \/ DeleteBuffer(i) \/ FlushBuffer(i)
  \/ \E s \in ScanStrings : ScanBytes(s)
  \/ PopBuffer \/ Destroy

-----------------------------------------------------------------------------
\* No character is lost, doubled or moved: through refills, growth, switches, pushes and pops, the
\* tokens taken from a buffer followed by what it still holds are what it was fed; what it holds
\* fits in it; and the stack holds different live buffers up to its top and none above.
TextKept ==
  /\ \A i \in DOMAIN buf :
       LET b == buf[i]
           pos == IF i = Current THEN g.text ELSE b.pos
           n == IF i = Current THEN g.n ELSE b.n
       IN b.out \o SubSeq(b.chars, pos + 1, n) = b.fed /\ n = Len(b.chars) /\ n <= b.size
  /\ \A k \in DOMAIN stack :
       /\ stack[k] # NoBuf => k <= top + 1 /\ stack[k] \in DOMAIN buf /\ \A j \in DOMAIN stack : stack[j] = stack[k] => j = k
  /\ stack # <<>> => top < Len(stack)

\* A token does not depend on how reading cut the input up, on the NULs in it or on how far the
\* automaton went before it backed up: it is the longest lexeme of its start condition in all that
\* follows, in the buffer or still unread, up to an end of file.
LongestToken ==
  last # NoBuf =>
    LET b == buf[Current]
        rest == SubSeq(b.chars, g.text + 1, g.n)
                \o (IF b.fill /\ b.status = "NORMAL" THEN unread[yyin] ELSE <<>>)
        all == last.text \o rest
    IN Len(last.text) = Max({j \in 1 .. Len(all) : Accept(last.sc, SubSeq(all, 1, j)) # 0})
=============================================================================
