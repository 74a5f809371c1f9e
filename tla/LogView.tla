------------------------------ MODULE LogView ------------------------------
(***************************************************************************)
(* QSmartListView with its LogModel (view/custom_qt/smart_list_view.py) as *)
(* the list of the system log (view/widgets/system_log.py): lines arrive,  *)
(* the oldest are trimmed, a filter set through a debounce timer hides     *)
(* rows, and the search buttons move the current row over what is shown.   *)
(*                                                                         *)
(* A line is the number of its arrival. A search text is a number p that a *)
(* line contains when p divides it; NoText, 0, is the empty text.          *)
(***************************************************************************)
EXTENDS Integers, SequencesExt, FiniteSetsExt

CONSTANTS
    MaxLines,  \* the limit of the list
    Text,      \* bound: what is typed in the search box
    Piece,     \* bound: lines of one message
    MaxWritten, \* bound: lines written
    MaxClicks  \* bound: actions of the user

NoText == 0
NoRow == 0

ASSUME LogAssumption == MaxLines \in Nat /\ Text \subseteq Nat \ {NoText}
                        /\ Piece \subseteq Nat \ {0} /\ MaxWritten \in Nat /\ MaxClicks \in Nat

VARIABLES
    lines,    \* LogModel._data
    written,  \* lines added so far
    current,  \* the line of the current index, or NoRow
    pattern,  \* _current_pattern, which is the text of the box
    filter,   \* _filter_enabled, the filter box
    hidden,   \* the pattern the proxy model filters by
    debounce, \* _filter_debounce_timer is running
    clicks,   \* bounded count
    cleared,  \* history: lines written when the list was last cleared
    excess    \* history: lines beyond the trim size that came in one piece

logVars == <<lines, written, current, pattern, filter, hidden, debounce, clicks, cleared, excess>>

LogInit ==
    /\ lines = <<>> /\ written = 0 /\ current = NoRow
    /\ pattern = NoText /\ filter = FALSE /\ hidden = NoText /\ debounce = FALSE
    /\ clicks = 0 /\ cleared = 0 /\ excess = 0

-----------------------------------------------------------------------------

\* int(max_lines * TRIM_CHUNK_RATIO)
TrimSize == (MaxLines * 2) \div 10

\* The second case is the code's guard against removing too much.
RemoveCount(n) == IF n <= MaxLines THEN 0
                  ELSE IF 10 * (n - TrimSize) < 8 * MaxLines THEN n - (9 * MaxLines) \div 10
                  ELSE TrimSize

TrimNewest(s) == SubSeq(s, 1, Len(s) - RemoveCount(Len(s)))   \* mutant: the wrong end
Trimmed(s) == SubSeq(s, RemoveCount(Len(s)) + 1, Len(s))

\* _match_row
Matches(line, p) == p = NoText \/ line % p = 0

\* The rows the proxy model shows; they are in the order of the lines.
ShownRows(s, p) == {line \in ToSet(s) : Matches(line, p)}

\* Qt's selection model: a current row that goes gives way to the row above it, else below.
CurrentIn(shown, line) ==
    LET above == {l \in shown : l < line}
    IN IF line \in shown \cup {NoRow} THEN line
       ELSE IF above # {} THEN Max(above) ELSE IF shown # {} THEN Min(shown) ELSE NoRow

\* append_log of the widget, with a text of n lines, then append and add_logs.
AppendLog(n) ==
    /\ written + n <= MaxWritten
    /\ LET longer == lines \o [i \in 1..n |-> written + i] IN lines' = Trimmed(longer)
    /\ written' = written + n
    /\ current' = CurrentIn(ShownRows(lines', hidden), current)
    /\ excess' = excess + (IF n > TrimSize THEN n - TrimSize ELSE 0)
    /\ UNCHANGED <<pattern, filter, hidden, debounce, clicks, cleared>>

-----------------------------------------------------------------------------
(* The user at the toolbar *)

\* _execute_filter_update; the rows the filter now rejects leave before those it now takes come
FilterBy(on, p) == /\ hidden' = (IF on /\ p # NoText THEN p ELSE NoText)
                   /\ current' = CurrentIn(ShownRows(lines, hidden) \cap ShownRows(lines, hidden'), current)

\* The text changes: set_search_pattern.
TypeQuietly(t) == /\ t # pattern                             \* mutant: the timer is not started
                  /\ pattern' = t
                  /\ UNCHANGED <<lines, written, current, filter, hidden, debounce, cleared, excess>>
TypeText(t) == /\ t # pattern
               /\ pattern' = t /\ debounce' = TRUE
               /\ UNCHANGED <<lines, written, current, filter, hidden, cleared, excess>>

FilterTimeout == /\ debounce /\ debounce' = FALSE
                 /\ FilterBy(filter, pattern)
                 /\ UNCHANGED <<lines, written, pattern, filter, clicks, cleared, excess>>

\* on_sys_log_filter_changed, which does not wait for the timer.
ToggleFilter == /\ filter' = ~filter
                /\ FilterBy(filter', pattern)
                /\ UNCHANGED <<lines, written, pattern, debounce, cleared, excess>>

RowOf(s, line) == SelectInSeq(s, LAMBDA l : l = line)

\* The order in which find_next looks at the rows: below the current one, then from the top.
NextOrderStays(s, line) ==                                   \* mutant: starts at the current row
    LET row == Max({1, RowOf(s, line)}) IN SubSeq(s, row, Len(s)) \o SubSeq(s, 1, row - 1)
NextOrder(s, line) ==
    LET row == RowOf(s, line) IN SubSeq(s, row + 1, Len(s)) \o SubSeq(s, 1, row)

\* find_prev: above the current row, then from the bottom; without one, all from the bottom.
PrevOrder(s, line) ==
    LET row == RowOf(s, line)
        start == IF row = 0 THEN Len(s) ELSE row - 1
    IN Reverse(SubSeq(s, 1, start)) \o Reverse(SubSeq(s, start + 1, Len(s)))

\* The first match that is shown becomes the current row; without one nothing changes.
Found(order, p) == LET first == SelectInSeq(order, LAMBDA l : Matches(l, hidden) /\ Matches(l, p)) IN
                   IF first = 0 THEN current ELSE order[first]

\* Its button also sets the pattern again, which starts the timer.
FindNext == /\ pattern # NoText
            /\ current' = Found(NextOrder(lines, current), pattern)
            /\ debounce' = TRUE
            /\ UNCHANGED <<lines, written, pattern, filter, hidden, cleared, excess>>

FindPrev == /\ pattern # NoText
            /\ current' = Found(PrevOrder(lines, current), pattern)
            /\ UNCHANGED <<lines, written, pattern, filter, hidden, debounce, cleared, excess>>

ClearLog == /\ lines' = <<>> /\ current' = NoRow /\ cleared' = written
            /\ UNCHANGED <<written, pattern, filter, hidden, debounce, excess>>

LogUser == /\ clicks < MaxClicks /\ clicks' = clicks + 1
           /\ \/ \E t \in Text \cup {NoText} : TypeText(t)
              \/ ToggleFilter \/ FindNext \/ FindPrev \/ ClearLog

LogNext == FilterTimeout \/ LogUser \/ \E n \in Piece : AppendLog(n)

LogSpec == LogInit /\ [][LogNext]_logVars

-----------------------------------------------------------------------------
(* Properties *)

\* LogModel: what is kept are the newest lines, without a gap, at least four fifths of the limit
\* when that many came; above the limit is only what came in pieces larger than one trim takes.
LogIsRecent ==
    /\ lines = [i \in 1..Len(lines) |-> written - Len(lines) + i]
    /\ Len(lines) <= MaxLines + excess
    /\ Len(lines) >= Min({written - cleared, MaxLines - TrimSize})

\* The filter: whenever no timer is pending, the rows shown are those of the text and box on
\* display, and the current row is one of them.
FilterFollows ==
    /\ ~debounce => hidden = (IF filter THEN pattern ELSE NoText)
    /\ current # NoRow => current \in ShownRows(lines, hidden)

\* What the search can stop at: the matching rows that are shown.
Hits == {l \in ShownRows(lines, hidden) : Matches(l, pattern)}
HitsBelow == {l \in Hits : l > current}
HitsAbove == {l \in Hits : current # NoRow => l < current}

\* The search buttons: find_next goes to the nearest match below the current row and starts
\* again at the top, find_prev the other way round; both only ever stop at a row that is shown.
FindIsCyclic ==
    [][/\ FindNext => current' = (IF HitsBelow # {} THEN Min(HitsBelow)
                                  ELSE IF Hits # {} THEN Min(Hits) ELSE current)
       /\ FindPrev => current' = (IF HitsAbove # {} THEN Max(HitsAbove)
                                  ELSE IF Hits # {} THEN Max(Hits) ELSE current)]_logVars
=============================================================================
