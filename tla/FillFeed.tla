------------------------------ MODULE FillFeed ------------------------------
(***************************************************************************)
(* How the fills of one account reach the bot                              *)
(* (modules/bitshares-native/subscriptions.ts): notices pushed by the      *)
(* node, scans of the account's history after a notice, a poll or a        *)
(* reconnect, and one cursor that all of them move.                        *)
(*                                                                         *)
(* The operations of the account are numbered 1, 2, 3, ... in the order of *)
(* the chain; some of them are fills.  A notice may leave fills out, so    *)
(* the cursor can be moved past a fill that nobody was given; the flag     *)
(* _gapRecovery then asks for a scan that starts below the cursor.  Scans  *)
(* overlap: only those that follow a notice keep each other out.           *)
(*                                                                         *)
(* Two things that can happen to a scan lose fills for good, and the       *)
(* history variables cutOff and turnedAway say which: an incomplete scan   *)
(* moves the cursor past what it did not fetch, and a scan below the       *)
(* cursor that the bot refuses has lowered the flag already.               *)
(***************************************************************************)
EXTENDS Naturals

CONSTANTS
    MaxOp,          \* operations of the account on chain
    Lookback,       \* HISTORY_GAP_LOOKBACK_OPS
    MaxRefused,     \* deliveries the bot's queue has no room for
    MaxBroken       \* connections lost, requests failed and scans that end early

\* A gap is never wider than the window that is scanned again.
ASSUME FeedAssumption ==
    /\ MaxOp \in Nat \ {0} /\ Lookback \in Nat /\ MaxOp <= Lookback
    /\ MaxRefused \in Nat /\ MaxBroken \in Nat

Ops == 1 .. MaxOp

VARIABLES
    head,        \* operations on chain
    fills,       \* those of them that are fills
    given,       \* the fills a callback took
    cursor,      \* lastDeliveredHistoryId
    gap,         \* _gapRecovery
    busy,        \* _processingHistory
    scanDue,     \* pendingScans: the timer of a coalesced scan is set
    scan,        \* processObjects() under way, by caller
    link,        \* the connection is up
    pushes,      \* the node pushes notices on it, and the handler is there
    noticed,     \* the last operation the node has passed for notices
    joining,     \* resubscribeAll() and resubscribeEntry() before their scan
    retry,       \* reconnectRetryTimer
    refused, broken,
    cutOff,      \* history: fills a scan left out that ended at its page limit or deadline
    turnedAway   \* history: fills below the cursor when the bot refused a scan below it

chainVars == <<head, fills>>
lossVars == <<cutOff, turnedAway>>
cursorVars == <<given, cursor, gap, refused, lossVars>>
scanVars == <<busy, scanDue, scan>>
linkVars == <<link, pushes, noticed, joining, retry, broken>>
feedVars == <<chainVars, cursorVars, scanVars, linkVars>>

Callers == {"notice", "poll", "all", "entry"}
None == [on |-> FALSE, from |-> 0, back |-> FALSE, low |-> 0]

\* subscribe(): the cursor is set one below the newest operation.
FeedInit ==
    /\ head = 1 /\ fills = {} /\ given = {} /\ cursor = 0 /\ gap = FALSE
    /\ busy = FALSE /\ scanDue = FALSE /\ scan = [c \in Callers |-> None]
    /\ link = TRUE /\ pushes = TRUE /\ noticed = 1 /\ joining = {} /\ retry = FALSE
    /\ refused = 0 /\ broken = 0 /\ cutOff = {} /\ turnedAway = {}

-----------------------------------------------------------------------------
\* An operation of the account gets on chain.
Operation ==
    /\ head < MaxOp
    /\ head' = head + 1
    /\ \E new \in {{}, {head + 1}} : fills' = fills \cup new
    /\ UNCHANGED <<cursorVars, scanVars, linkVars>>

\* A callback takes the fills, or throws since the bot's queue is full.
Takes(new) == given' = given \cup new /\ UNCHANGED refused
Refuses == refused < MaxRefused /\ refused' = refused + 1 /\ UNCHANGED <<given, cursor>>
Missing == fills \ given

\* A coalesced scan, unless one is due or under way.
Due == busy' = TRUE /\ scanDue' = (scanDue \/ ~busy)

\* handleNotice() with fills: some of those the node has not passed yet.
Newer(i) == i > cursor
\* Mutation: one operation between the old and the new cursor counts as contiguous.
ArmsLate(i) == i - cursor > 2
Arms(i) == i - cursor > 1
Told(last) ==
    /\ cursor' = IF Newer(last) THEN last ELSE cursor
    /\ IF Newer(last) /\ Arms(last)
       THEN gap' = TRUE /\ Due
       ELSE UNCHANGED <<gap, busy, scanDue>>
Notice ==
    /\ link /\ pushes
    /\ \E last \in {i \in fills : i > noticed} :
         /\ noticed' = last
         /\ \/ Refuses /\ UNCHANGED <<gap, busy, scanDue>>
            \/ /\ \E with \in SUBSET {i \in fills : noticed < i /\ i < last} :
                    Takes(with \cup {last})
               /\ Told(last)
    /\ UNCHANGED <<chainVars, lossVars, scan, link, pushes, joining, retry, broken>>

\* handleNotice() without fills.
Nudge ==
    /\ link /\ pushes /\ ~busy /\ Due
    /\ UNCHANGED <<chainVars, cursorVars, scan, linkVars>>

-----------------------------------------------------------------------------
\* processObjects() up to its request: the cursor and the flag are read here.
Start(c) ==
    scan' = [scan EXCEPT ![c] = [on |-> TRUE, from |-> cursor, back |-> gap, low |-> head]]

\* Mutation: a scan that fails leaves the flag up.
NeverOver(c) ==
    /\ scan' = [scan EXCEPT ![c] = None]
    /\ UNCHANGED <<busy, scanDue>>
\* The scan is over; only that of a notice holds _processingHistory.
Over(c) ==
    /\ scan' = [scan EXCEPT ![c] = None]
    /\ busy' = (busy /\ c # "notice")
    /\ UNCHANGED scanDue

\* The timer of a coalesced scan; a request on a closed connection fails at once.
TimerFires ==
    /\ scanDue /\ scanDue' = FALSE
    /\ IF link THEN Start("notice") /\ UNCHANGED busy ELSE busy' = FALSE /\ UNCHANGED scan
    /\ UNCHANGED <<chainVars, cursorVars, linkVars>>

\* The poll's tick.
MayPoll == ~busy /\ "entry" \notin joining /\ ~scan["entry"].on
Poll ==
    /\ link /\ ~scan["poll"].on /\ MayPoll
    /\ Start("poll")
    /\ UNCHANGED <<chainVars, cursorVars, busy, scanDue, linkVars>>

\* What fetchFillHistoryEntries() returns when the node's newest operation is top and
\* the pages end above cut.
Window(s) == IF s.back THEN {i \in Ops : i + Lookback >= s.from} ELSE {i \in Ops : i > s.from}
Entries(s, cut, top) == {i \in Window(s) : cut < i /\ i <= top}

\* The pages go all the way, or end at the page limit or the deadline.
Breaks == broken < MaxBroken /\ broken' = broken + 1
Fetched(cut, top) ==
    \/ cut = 0 /\ UNCHANGED broken
    \/ cut > 0 /\ cut < top /\ Breaks

\* An error of a call made to resubscribe schedules a retry.
Throws(c) == retry' = (retry \/ c \in {"all", "entry"})

\* The flag is lowered when the history is there, whatever comes of it.
FlagAfter(s) == gap /\ ~s.back

\* The callbacks get the fills of the history; top is its newest entry.
Accepted(c, cut, top) ==
    LET entries == Entries(scan[c], cut, top)
    IN /\ Takes(entries \cap fills)
       /\ cursor' = IF entries = {} THEN cursor ELSE top
       /\ retry' = (retry /\ c \notin {"all", "entry"})
       /\ cutOff' = cutOff \cup {i \in Missing \cap Window(scan[c]) : i <= cut}
       /\ UNCHANGED turnedAway

\* A callback throws: the cursor stays, the flag is down.
Rejected(c, cut, top) ==
    /\ Entries(scan[c], cut, top) \cap fills # {}
    /\ Refuses /\ Throws(c)
    /\ turnedAway' = IF scan[c].back
                       THEN turnedAway \cup {i \in Missing : i <= cursor} ELSE turnedAway
    /\ UNCHANGED cutOff

Answer(c) ==
    /\ scan[c].on
    /\ gap' = FlagAfter(scan[c])
    /\ \E top \in scan[c].low .. head : \E cut \in 0 .. MaxOp :
         /\ Fetched(cut, top)
         /\ Accepted(c, cut, top) \/ Rejected(c, cut, top)
    /\ Over(c)
    /\ UNCHANGED <<chainVars, link, pushes, noticed, joining>>

\* A page times out or the node reports an error.
ScanFails(c) ==
    /\ scan[c].on /\ Breaks
    /\ Over(c) /\ Throws(c)
    /\ UNCHANGED <<chainVars, cursorVars, link, pushes, noticed, joining>>

-----------------------------------------------------------------------------
\* refreshSubscriptions() fails.  resubscribeAll() ends there when the callback could not
\* be set; when it was the account that could not be subscribed, it is retried.
Fails(c, asked) ==
    /\ retry' = (retry \/ asked)
    /\ gap' = (gap \/ (asked /\ c = "all"))

\* The connection closes: every request under way is rejected, the handler is gone.
Closed ==
    /\ link /\ Breaks
    /\ link' = FALSE /\ pushes' = FALSE
    /\ scan' = [c \in Callers |-> None]
    /\ busy' = (busy /\ ~scan["notice"].on)
    /\ \E asked \in BOOLEAN :
         /\ retry' = (retry \/ scan["all"].on \/ scan["entry"].on \/ "entry" \in joining
                            \/ ("all" \in joining /\ asked))
         /\ gap' = (gap \/ ("all" \in joining /\ asked))
    /\ joining' = {}
    /\ UNCHANGED <<chainVars, given, cursor, refused, lossVars, scanDue, noticed>>

\* The transport reconnects; resubscribeAll() drops the scans that are due.
Reconnected ==
    /\ ~link /\ link' = TRUE
    /\ joining' = joining \cup {"all"}
    /\ busy' = (busy /\ ~scanDue) /\ scanDue' = FALSE
    /\ UNCHANGED <<chainVars, cursorVars, scan, pushes, noticed, retry, broken>>

\* reconnectRetryTimer: resubscribeEntry(), unless one is under way.
Retry ==
    /\ retry /\ retry' = FALSE
    /\ IF "entry" \in joining \/ scan["entry"].on
       THEN UNCHANGED joining
       ELSE joining' = joining \cup {"entry"}
    /\ UNCHANGED <<chainVars, cursorVars, scanVars, link, pushes, noticed, broken>>

\* refreshSubscriptions() succeeded: look below the cursor and scan.
Joined(c) ==
    /\ c \in joining /\ link
    /\ joining' = joining \ {c}
    /\ pushes' = TRUE /\ noticed' = IF pushes THEN noticed ELSE head
    /\ gap' = TRUE
    /\ scan' = [scan EXCEPT ![c] = [on |-> TRUE, from |-> cursor, back |-> TRUE, low |-> head]]
    /\ UNCHANGED <<chainVars, given, cursor, refused, lossVars, busy, scanDue, link, retry,
                   broken>>

JoinFails(c) ==
    /\ c \in joining
    /\ IF link THEN Breaks ELSE UNCHANGED broken
    /\ joining' = joining \ {c}
    /\ \E asked \in BOOLEAN : (asked \/ c = "all") /\ Fails(c, asked)
    /\ pushes' \in {pushes, FALSE}
    /\ UNCHANGED <<chainVars, given, cursor, refused, lossVars, scanVars, link, noticed>>

FeedNext ==
    \/ Operation \/ Notice \/ Nudge \/ TimerFires \/ Poll
    \/ Closed \/ Reconnected \/ Retry
    \/ \E c \in Callers : Answer(c) \/ ScanFails(c) \/ Joined(c) \/ JoinFails(c)

FeedSpec == FeedInit /\ [][FeedNext]_feedVars

\* Timers fire, requests end, the transport keeps connecting; a fault need not happen.
FeedFairness ==
    /\ WF_feedVars(TimerFires) /\ WF_feedVars(Poll)
    /\ WF_feedVars(Reconnected) /\ WF_feedVars(Retry)
    /\ WF_feedVars(\E c \in Callers : Answer(c) \/ Joined(c))
FairFeedSpec == FeedSpec /\ FeedFairness
-----------------------------------------------------------------------------
\* A fill that no callback has taken is above the cursor, or a scan below it is asked for,
\* unless a scan ended before it or was refused with it: however notices, scans, polls and
\* reconnects overlap, nothing else passes over a fill.
NothingSkipped ==
    \A i \in Missing \ (cutOff \cup turnedAway) : i > cursor \/ gap

\* Every other fill reaches the bot in the end, whether its notice is lost, the connection
\* closes, or the queue refuses it.
EveryFillIsGiven == []<>(Missing \subseteq cutOff \cup turnedAway)
=============================================================================
