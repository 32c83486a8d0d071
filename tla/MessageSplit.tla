---------------------------- MODULE MessageSplit ----------------------------
(* pkg/channels/split.go: a message that is too long for its channel is cut  *)
(* into chunks, at a newline or a space where there is one, and not inside a *)
(* code block; a block that is too long itself is closed at the end of the   *)
(* chunk and opened again, with its header, in front of what is left.  One   *)
(* action is one round of the loop.  A rune is a newline, a space, a         *)
(* backtick, or a letter, and a letter is the number of its place in the     *)
(* message, so that a chunk tells which letters it brings.                   *)
(***************************************************************************)
EXTENDS Integers, FiniteSetsExt, SequencesExt

CONSTANTS
  Messages,     \* bound: the messages to split
  MaxLen,       \* the channel's limit; without one nothing is split
  Reserve,      \* runes kept free for a closing fence (50)
  LineWindow,   \* how far back a newline is looked for (200)
  SpaceWindow,  \* how far back a space is looked for (100)
  Enough,       \* a part of a block worth a chunk (20)
  MaxText       \* bound: what is left to split

Newline == 0
Space == -1
Tick == -2
Fence == <<Tick, Tick, Tick>>
White(r) == r \in {Newline, Space}
Letters(s) == {r \in {s[i] : i \in 1..Len(s)} : r > 0}

VARIABLES
  message,   \* what was to be sent
  text,      \* runes: shrinks only where a block is opened again
  start,     \* runes of text that are gone
  chunk,     \* the latest of messages
  sent,      \* history: letters in the chunks so far
  again,     \* history: letters in more than one
  stalled    \* history: a round left no less than there was

splitVars == <<message, text, start, chunk, sent, again, stalled>>

Total == Len(text)
Left == Total - start
Runes(from, to) == SubSeq(text, from + 1, to)

Init ==
  /\ message \in Messages
  /\ text = message /\ start = 0 /\ chunk = <<>>
  /\ sent = {} /\ again = {} /\ stalled = FALSE

-----------------------------------------------------------------------------
FenceAt(s, i, end) == i + 2 < end /\ SubSeq(s, i + 1, i + 3) = Fence

(* The opening fence of s[from:end] that is not closed there, or -1.        *)
LastUnclosed(s, from, end) ==
  LET Meet(f, i) ==
        IF i < f.next \/ ~FenceAt(s, i, end) THEN f
        ELSE [next |-> i + 3, open |-> IF f.open = -1 THEN i ELSE -1]
  IN FoldLeft(Meet, [next |-> from, open |-> -1], [k \in 1..end - from |-> from + k - 1]).open

(* The end of the next fence of text, or -1. *)
NextClosing(from) ==
  LET fences == {i \in from..Total - 1 : FenceAt(text, i, Total)}
  IN IF fences = {} THEN -1 ELSE Min(fences) + 3

(* The last newline, or space, of the window that ends at `end'; what is    *)
(* negative was not found.                                                  *)
LastNewline(end) ==
  SelectLastInSubSeq(text, Max({end - LineWindow, start}) + 1, end, LAMBDA r : r = Newline) - 1
LastSpace(end) ==
  SelectLastInSubSeq(text, Max({end - SpaceWindow, start}) + 1, end, LAMBDA r : r = Space) - 1
NewlineFrom(from) == SelectInSubSeq(text, from + 1, Total, LAMBDA r : r = Newline) - 1

TrimRight(s) == SubSeq(s, 1, SelectLastInSeq(s, LAMBDA r : ~White(r)))
TrimSpace(s) ==
  LET first == SelectInSeq(s, LAMBDA r : ~White(r))
  IN IF first = 0 THEN <<>> ELSE TrimRight(SubSeq(s, first, Len(s)))

(* Where a chunk ends: at a newline or else a space, if there is one behind *)
(* start, or where room for a fence is left.                                *)
BreakBefore(end) ==
  IF LastNewline(end) > start THEN LastNewline(end) ELSE LastSpace(end)
EffectiveLimit ==
  Max({MaxLen - Min({Max({MaxLen \div 10, Reserve}), MaxLen \div 2}), MaxLen \div 2})
MsgEnd ==
  LET end == start + EffectiveLimit
  IN IF BreakBefore(end) > start THEN BreakBefore(end) ELSE end

Unclosed == LastUnclosed(text, start, MsgEnd)
Closes == LET i == NextClosing(MsgEnd) IN i > 0 /\ i - start <= MaxLen

Header ==
  IF NewlineFrom(Unclosed) < 0 THEN Fence ELSE TrimSpace(Runes(Unclosed, NewlineFrom(Unclosed)))
HeaderEnd == IF NewlineFrom(Unclosed) < 0 THEN Unclosed + 3 ELSE NewlineFrom(Unclosed)
RoomForBreakOnly == Min({start + MaxLen - 1, Total})
InnerLimit == Min({start + MaxLen - 5, Total})

-----------------------------------------------------------------------------
Emit(c) ==
  /\ chunk' = c
  /\ sent' = sent \cup Letters(c)
  /\ again' = again \cup (sent \cap Letters(c))
  /\ UNCHANGED message

(* The chunk ends at `end', and the next begins behind the white space. *)
Cut(end) ==
  LET next == SelectInSubSeq(text, end + 1, Total, LAMBDA r : ~White(r))
  IN /\ Emit(Runes(start, end))
     /\ start' = IF next = 0 THEN Total ELSE next - 1
     /\ UNCHANGED <<text, stalled>>

(* The chunk ends at `end' in a block: the block is closed there, and       *)
(* opened again in front of the rest.                                       *)
CutInside(end) ==
  /\ Emit(TrimRight(Runes(start, end)) \o <<Newline>> \o Fence)
  /\ text' = TrimSpace(Header \o <<Newline>> \o Runes(end, Total))
  /\ start' = 0
  /\ stalled' = (stalled \/ Len(text') >= Left)

TooLong == Left > MaxLen /\ Total <= MaxText

SendRest ==
  /\ Left \in 1..MaxLen
  /\ Emit(Runes(start, Total)) /\ start' = Total
  /\ UNCHANGED <<text, stalled>>

SendText == TooLong /\ Unclosed = -1 /\ Cut(MsgEnd)

(* A block that is open at the end of the chunk: to its end if that is near *)
SendBlock == TooLong /\ Unclosed >= 0 /\ Closes /\ Cut(NextClosing(MsgEnd))

(* or else through it, if enough of it is in the chunk,                     *)
InBlock == TooLong /\ Unclosed >= 0 /\ ~Closes
Through == MsgEnd > HeaderEnd + Enough
SplitBlock ==
  /\ InBlock /\ Through
  /\ CutInside(IF LastNewline(InnerLimit) > HeaderEnd THEN LastNewline(InnerLimit) ELSE InnerLimit)

(* or else before it, if there is something before it,                      *)
Before == BreakBefore(Unclosed) > start
SendBefore ==
  /\ InBlock /\ ~Through
  /\ Before \/ Unclosed - start > Enough
  /\ Cut(IF Before THEN BreakBefore(Unclosed) ELSE Unclosed)

(* or else through it all the same.                                         *)
SplitLate ==
  /\ InBlock /\ ~Through
  /\ ~Before /\ Unclosed - start <= Enough
  /\ CutInside(InnerLimit)

Next == SendRest \/ SendText \/ SendBlock \/ SplitBlock \/ SendBefore \/ SplitLate
Spec == Init /\ [][Next]_splitVars
-----------------------------------------------------------------------------
TypeOK ==
  /\ start \in 0..Total
  /\ again \subseteq sent /\ sent \subseteq Letters(message)
  /\ stalled \in BOOLEAN

(* No chunk is longer than the channel allows, closing fence included.      *)
ChunkFits == Len(chunk) <= MaxLen

(* Letters arrive in order and none is left out: where a chunk brings a     *)
(* letter, it or an earlier chunk brings those before it, and when nothing  *)
(* is left, all have arrived.                                               *)
NothingLost ==
  /\ \A m, n \in Letters(message) : m < n /\ n \in sent => m \in sent
  /\ Left = 0 => sent = Letters(message)

(* A letter comes twice only as part of the header of a block.              *)
OnFenceLine(n) ==
  \E i \in 0..n - 1 : FenceAt(message, i, n) /\ Newline \notin {message[j] : j \in i + 1..n}
TwiceInHeader == \A n \in again : OnFenceLine(n)

(* Splitting gets on, unless the line at which a block opens nearly fills a *)
(* chunk.                                                                   *)
LongLine ==
  \E i \in 0..Len(message) - 1, h \in 1..Len(message) :
    /\ i + h <= Len(message) /\ FenceAt(message, i, Len(message))
    /\ Newline \notin {message[j] : j \in i + 1..i + h}
    /\ h > MaxLen - LineWindow - 7
GetsOn == stalled => LongLine

(* Where every fence begins a line and is closed, it is so in every chunk.  *)
(* A fence elsewhere may lie across the place where the chunk is to end:    *)
(* neither search sees it, and the block is closed twice.                   *)
FencesAsLines ==
  /\ LastUnclosed(message, 0, Len(message)) = -1
  /\ \A i \in 1..Len(message) - 1 : FenceAt(message, i, Len(message)) => message[i] = Newline
BlocksWhole == FencesAsLines => LastUnclosed(chunk, 0, Len(chunk)) = -1

(* The loop never comes back to where it was: what a round does depends on  *)
(* text and start alone, so it would go round for ever, with one chunk more *)
(* each time.                                                               *)
Returns == [][<<text', start'>> # <<text, start>>]_splitVars

(* A message of the run: a block whose first line is as long as a chunk of  *)
(* it, with the limit of Discord 1994 runes of minified JSON behind the     *)
(* opening fence.                                                           *)
LongFenceLine == {Fence \o [i \in 1..11 |-> i + 3] \o <<Newline>> \o [i \in 1..12 |-> i + 15]}
=============================================================================
