---------------------------- MODULE SnsReceiver ----------------------------
(***************************************************************************)
(* The receiver of the stop-and-wait secondary user (examples/sns_rx.grc): *)
(* interference_tagger_cc puts a tag in the stream where interference      *)
(* begins (T) and ends (F); stop_n_wait_rx_ctrl_cc counts the collisions,  *)
(* waits for as many bursts of the primary user and lets a thread of its   *)
(* own publish the clear signal, twice; su_packet_sink_c, further down the *)
(* stream, publishes the collision signal and the packets.  A sample is    *)
(* one step of each block: a call of general_work is a run of such steps,  *)
(* and its boundaries leave no trace in the state.  coarse_sync_cc and the *)
(* blocks after the controller forward the tags and are part of the lag.   *)
(* phy_crc and stop_n_wait_ack pass both signals on in the order in which  *)
(* they are published (a message is taken to outrun d_valid samples), so   *)
(* `told' is set where a signal is published.                              *)
(***************************************************************************)
EXTENDS Integers, Sequences, SequencesExt, FiniteSets

CONSTANTS
  MinLen,        \* MINLEN of the tagger
  Valid,         \* d_valid of the controller
  SfdLen,        \* the 512 samples searched for a preamble
  PreLen,        \* d_samples.size(): looked at behind them
  Burst,         \* longest stretch of the same kind on the air (a bound)
  CtrlCap,       \* samples between tagger and controller
  SinkCap,       \* samples between controller and packet sink
  MaxCollisions  \* stretches that raise a tag (a bound)

ASSUME ReceiverAssumption ==
  /\ MinLen \in Nat \ {0} /\ Valid \in Nat \ {0} /\ SfdLen \in Nat \ {0}
  /\ PreLen \in Nat /\ Burst \in Nat \ {0} /\ MaxCollisions \in Nat
  /\ CtrlCap \in Nat /\ CtrlCap >= SfdLen + PreLen
  /\ SinkCap \in Nat /\ SinkCap >= SfdLen

VARIABLES
  air,        \* what is on the air: energy, interference, samples left of it
  tagger,     \* d_intf_state, d_intf_cnt
  toCtrl,     \* samples on their way to the controller
  ctrl,       \* d_state, d_ed_cnt, d_voe_cnt, d_silent_trig
  toSink,     \* tags of the samples on their way to the packet sink
  sink,       \* d_state, d_voe_state, d_voe_do_not_pub
  clearers,   \* detached pub_clear threads before their first, second signal
  told,       \* the signal that last left for the transmitter
  prompt,     \* history: the stop, if one is in force, was reported in time
  raised,     \* history: T tags of the tagger
  reports,    \* history: collision signals of the packet sink
  withheld,   \* history: whole packets the packet sink did not publish
  hit,        \* history: interference began in the packet being read
  leaked      \* history: such a packet was published

vars == <<air, tagger, toCtrl, ctrl, toSink, sink, clearers, told, prompt,
          raised, reports, withheld, hit, leaked>>

Tags == {"none", "T", "F"}
IsBegin(tag) == tag = "T"
Begun(tags) == Cardinality({i \in DOMAIN tags : IsBegin(tags[i])})
One(b) == IF b THEN 1 ELSE 0

TypeOK ==
  /\ air \in [ed : BOOLEAN, voe : BOOLEAN, left : 0..Burst]
  /\ tagger \in [state : BOOLEAN, cnt : 0..(MinLen - 1)]
  /\ toCtrl \in Seq([ed : BOOLEAN, tag : Tags]) /\ Len(toCtrl) <= CtrlCap
  /\ ctrl \in [state : {"ED_LISTEN", "ED_SFD", "ED_DETECT_PU", "ED_DETECT_SNS", "ED_SILENT"},
               ed_cnt : 0..(Valid - 1), voe_cnt : 0..MaxCollisions, trig : BOOLEAN]
  /\ toSink \in Seq(Tags) /\ Len(toSink) <= SinkCap
  /\ sink \in [state : {"SEARCH_ZERO", "HAVE_SYNC", "LOAD_PAYLOAD"},
               voe : BOOLEAN, do_not_pub : BOOLEAN]
  /\ clearers \in [first : 0..MaxCollisions, second : 0..MaxCollisions]
  /\ told \in {"collision", "clear"} /\ prompt \in BOOLEAN
  /\ raised \in 0..MaxCollisions /\ reports \in 0..MaxCollisions
  /\ withheld \in 0..MaxCollisions
  /\ hit \in BOOLEAN /\ leaked \in BOOLEAN

Nothing == [ed |-> FALSE, voe |-> FALSE, left |-> 0]

Init ==
  /\ air = Nothing
  /\ tagger = [state |-> FALSE, cnt |-> 0]
  /\ toCtrl = << >> /\ toSink = << >>
  /\ ctrl = [state |-> "ED_LISTEN", ed_cnt |-> 0, voe_cnt |-> 0, trig |-> FALSE]
  /\ sink = [state |-> "SEARCH_ZERO", voe |-> FALSE, do_not_pub |-> FALSE]
  /\ clearers = [first |-> 0, second |-> 0]
  /\ told = "clear" /\ prompt = TRUE
  /\ raised = 0 /\ reports = 0 /\ withheld = 0
  /\ hit = FALSE /\ leaked = FALSE

-----------------------------------------------------------------------------
(* The air and the tagger.                                                 *)

\* The tagger's state turns at the MINLEN-th sample in a row that disagrees.
Turns(voe) == voe # tagger.state /\ tagger.cnt + 1 >= MinLen
TagOf(voe) == IF ~Turns(voe) THEN "none" ELSE IF tagger.state THEN "F" ELSE "T"

\* The tagger passes a sample on, with a tag where its state turns.
Passes(ed, voe) ==
  /\ Len(toCtrl) < CtrlCap
  /\ tagger' = IF Turns(voe) THEN [state |-> ~tagger.state, cnt |-> 0]
               ELSE [tagger EXCEPT !.cnt = IF voe # tagger.state THEN @ + 1 ELSE 0]
  /\ toCtrl' = Append(toCtrl, [ed |-> ed, tag |-> TagOf(voe)])
  /\ raised' = raised + One(IsBegin(TagOf(voe)))
  /\ UNCHANGED <<ctrl, toSink, sink, clearers, told, prompt, reports, withheld, hit, leaked>>

\* The first of n samples with the same energy and interference, and the others.
Left(ed, voe, n) == IF n = 0 THEN Nothing ELSE [ed |-> ed, voe |-> voe, left |-> n]

Stretch(ed, voe, n) ==
  /\ air.left = 0
  /\ voe => raised < MaxCollisions
  /\ air' = Left(ed, voe, n - 1)
  /\ Passes(ed, voe)

Sample ==
  /\ air.left > 0
  /\ air' = Left(air.ed, air.voe, air.left - 1)
  /\ Passes(air.ed, air.voe)

-----------------------------------------------------------------------------
(* stop_n_wait_rx_ctrl_cc.                                                 *)

EnterListen(c) == [c EXCEPT !.state = "ED_LISTEN", !.ed_cnt = 0, !.voe_cnt = 0]
EnterSfd(c)    == [c EXCEPT !.state = "ED_SFD", !.ed_cnt = 0]
EnterEd(c, s)  == [c EXCEPT !.state = s, !.ed_cnt = 0]
EnterSilent(c) == [c EXCEPT !.state = "ED_SILENT", !.ed_cnt = 0, !.trig = FALSE]

\* tags_handler for each of the first n samples: count T, forward the tag.
TagsOf(samples) == [i \in DOMAIN samples |-> samples[i].tag]
TagsHandler(n) == [ctrl EXCEPT !.voe_cnt = @ + Begun(TagsOf(SubSeq(toCtrl, 1, n)))]

\* The next n samples are read with the controller in its state, and passed on.
Reads(n) ==
  /\ Len(toCtrl) >= n
  /\ Len(toSink) + n <= SinkCap
  /\ toCtrl' = SubSeq(toCtrl, n + 1, Len(toCtrl))
  /\ toSink' = toSink \o TagsOf(SubSeq(toCtrl, 1, n))

Energy == toCtrl[1].ed
\* The Valid-th sample in a row with (without) energy.
Lasts(on) == Energy = on /\ ctrl.ed_cnt + 1 >= Valid
CountEd(c, on) == [c EXCEPT !.ed_cnt = IF Energy = on THEN @ + 1 ELSE 0]

Listen ==
  /\ ctrl.state = "ED_LISTEN"
  /\ Reads(1)
  /\ ctrl' = IF Lasts(TRUE) THEN EnterSfd(TagsHandler(1)) ELSE CountEd(TagsHandler(1), TRUE)
  /\ UNCHANGED clearers

\* Waits for the samples to search, and for those its correlation reaches to.
SearchSfd(found) ==
  /\ ctrl.state = "ED_SFD"
  /\ Len(toCtrl) >= SfdLen + PreLen
  /\ Reads(SfdLen)
  /\ ctrl' = EnterEd(TagsHandler(SfdLen), IF found THEN "ED_DETECT_SNS" ELSE "ED_DETECT_PU")
  /\ UNCHANGED clearers

\* The end of the burst: silence after a collision.
AfterBurst(c) == IF c.voe_cnt > 0 THEN EnterSilent(c) ELSE EnterListen(c)

Detect ==
  /\ ctrl.state \in {"ED_DETECT_PU", "ED_DETECT_SNS"}
  /\ Reads(1)
  /\ ctrl' = IF Lasts(FALSE) THEN AfterBurst(TagsHandler(1)) ELSE CountEd(TagsHandler(1), FALSE)
  /\ UNCHANGED clearers

\* In silence a burst begins ...
SilentBegin ==
  /\ ctrl.state = "ED_SILENT" /\ ~ctrl.trig
  /\ Reads(1)
  /\ ctrl' = IF Lasts(TRUE) THEN [TagsHandler(1) EXCEPT !.ed_cnt = 0, !.trig = TRUE]
             ELSE CountEd(TagsHandler(1), TRUE)
  /\ UNCHANGED clearers

\* ... and ends: one collision less to wait for; the last one is notified.
OneLess_Not(c) == c
OneLess_All(c) == [c EXCEPT !.voe_cnt = 0]
OneLess(c) == [c EXCEPT !.voe_cnt = IF @ = 0 THEN 0 ELSE @ - 1]
NotifyClear == clearers' = [clearers EXCEPT !.first = @ + 1]

SilentEnd ==
  /\ ctrl.state = "ED_SILENT" /\ ctrl.trig
  /\ Reads(1)
  /\ LET c == TagsHandler(1)
     IN  \/ /\ ~Lasts(FALSE)
            /\ ctrl' = CountEd(c, FALSE)
            /\ UNCHANGED clearers
         \/ /\ Lasts(FALSE) /\ OneLess(c).voe_cnt > 0
            /\ ctrl' = [OneLess(c) EXCEPT !.ed_cnt = 0, !.trig = FALSE]
            /\ UNCHANGED clearers
         \/ /\ Lasts(FALSE) /\ OneLess(c).voe_cnt = 0
            /\ ctrl' = EnterListen(OneLess(c))
            /\ NotifyClear

Ctrl ==
  /\ Listen \/ Detect \/ SilentBegin \/ SilentEnd \/ \E found \in BOOLEAN : SearchSfd(found)
  /\ UNCHANGED <<air, tagger, sink, told, prompt, raised, reports, withheld, hit, leaked>>

\* pub_clear publishes at once and again after 25 ms.
PubFirst ==
  /\ clearers.first > 0
  /\ clearers' = [first |-> clearers.first - 1, second |-> clearers.second + 1]

PubSecond ==
  /\ clearers.second > 0
  /\ clearers' = [clearers EXCEPT !.second = @ - 1]

PubClear ==
  /\ PubFirst \/ PubSecond
  /\ told' = "clear" /\ prompt' = TRUE
  /\ UNCHANGED <<air, tagger, toCtrl, ctrl, toSink, sink, raised, reports, withheld, hit, leaked>>

-----------------------------------------------------------------------------
(* su_packet_sink_c.  What the symbols say is the environment's choice.    *)

\* update_voe finds interference beginning, and what it leaves of the state.
Begins(tag) == IsBegin(tag) /\ ~sink.voe
UpdateVoe_KeepsState(tag) ==
  [sink EXCEPT !.voe = @ \/ IsBegin(tag), !.do_not_pub = @ \/ Begins(tag)]
UpdateVoe_Publishes(tag) ==
  [sink EXCEPT !.voe = IF tag = "none" THEN @ ELSE IsBegin(tag)]
UpdateVoe(tag) ==
  [sink EXCEPT !.voe = IF tag = "none" THEN @ ELSE IsBegin(tag),
               !.do_not_pub = @ \/ Begins(tag)]

\* A symbol that does not end a packet: searching, a header that is read or
\* refused, a payload that goes on or breaks off.
Moves == [SEARCH_ZERO  |-> {"SEARCH_ZERO", "HAVE_SYNC"},
          HAVE_SYNC    |-> {"HAVE_SYNC", "LOAD_PAYLOAD", "SEARCH_ZERO"},
          LOAD_PAYLOAD |-> {"LOAD_PAYLOAD", "SEARCH_ZERO"}]

ReadSymbol(next) ==
  /\ toSink # << >>
  /\ next \in Moves[sink.state]
  /\ sink' = [UpdateVoe(Head(toSink)) EXCEPT !.state = next]
  /\ hit' = (next # "SEARCH_ZERO" /\ (hit \/ IsBegin(Head(toSink))))
  /\ UNCHANGED <<withheld, leaked>>

\* The last symbol of a packet: published unless d_voe_do_not_pub is set.
Completes_StaysMute(s) == [s EXCEPT !.state = "SEARCH_ZERO"]
Completes(s) == [s EXCEPT !.state = "SEARCH_ZERO", !.do_not_pub = FALSE]

ReadLast ==
  /\ toSink # << >>
  /\ sink.state = "LOAD_PAYLOAD"
  /\ LET s == UpdateVoe(Head(toSink))
     IN  /\ sink' = Completes(s)
         /\ withheld' = withheld + One(s.do_not_pub)
         /\ leaked' = (leaked \/ (~s.do_not_pub /\ (hit \/ IsBegin(Head(toSink)))))
  /\ hit' = FALSE

\* Fewer than two runs of d_valid samples were read behind the i-th of tags.
Near(i, tags) == Len(tags) - i < 2 * Valid

Sink ==
  /\ ReadLast \/ \E next \in {"SEARCH_ZERO", "HAVE_SYNC", "LOAD_PAYLOAD"} : ReadSymbol(next)
  /\ toSink' = Tail(toSink)
  /\ reports' = reports + One(Begins(Head(toSink)))
  /\ told' = IF Begins(Head(toSink)) THEN "collision" ELSE told
  /\ prompt' = IF Begins(Head(toSink)) THEN Near(1, toSink) ELSE prompt
  /\ UNCHANGED <<air, tagger, toCtrl, ctrl, clearers, raised>>

-----------------------------------------------------------------------------
Air == \E ed, voe \in BOOLEAN, n \in 1..Burst : Stretch(ed, voe, n)

Next == Air \/ Sample \/ Ctrl \/ PubClear \/ Sink

Spec == Init /\ [][Next]_vars

\* Every block is scheduled, and the air is busy and quiet for long enough
\* again and again: the primary user goes on sending.
Fairness ==
  /\ WF_vars(Sample) /\ WF_vars(Ctrl) /\ WF_vars(Sink)
  /\ WF_vars(PubClear)
  /\ SF_vars(Stretch(TRUE, FALSE, Burst)) /\ SF_vars(Stretch(FALSE, FALSE, Burst))

LiveSpec == Spec /\ Fairness

-----------------------------------------------------------------------------
\* The tags between the tagger and the sink take turns, from the state the sink
\* is in to the state the tagger is in: each finds the state it is to change.
On(tags, state, n) ==
  \/ state /\ \A i \in 1..n : tags[i] = "none"
  \/ \E j \in 1..n : tags[j] = "T" /\ \A i \in (j + 1)..n : tags[i] = "none"
TagsTakeTurns ==
  LET tags == toSink \o TagsOf(toCtrl)
  IN  /\ \A k \in 1..Len(tags) :
           /\ tags[k] = "T" => ~On(tags, sink.voe, k - 1)
           /\ tags[k] = "F" => On(tags, sink.voe, k - 1)
      /\ On(tags, sink.voe, Len(tags)) <=> tagger.state

\* Tagger, controller and sink agree on the collisions: each one the tagger
\* raised was reported by the sink (update_voe) or is still in the stream, and
\* the tags take turns, so neither block is left with a state of its own.
CollisionsAgree ==
  /\ raised = reports + Begun(toSink) + Begun(TagsOf(toCtrl))
  /\ TagsTakeTurns

\* The clear signal travels on its own and may overtake the report it answers, but
\* only by whole bursts: notify_clear passes no collision whose tag has fewer than
\* two runs of d_valid samples behind it, for the burst that ends the silence needs
\* as many.  The controller passes 512 samples at once, and the stream holds more.
ClearAfterReport ==
  [][clearers'.first > clearers.first =>
       \A i \in 1..Len(toSink') : toSink'[i] = "T" => ~Near(i, toSink')]_vars

\* A packet in which interference began is never published, so it is never
\* acknowledged, whatever its bytes decode to (d_voe_do_not_pub).
CollidedNotPublished == ~leaked

\* Each collision costs the packet sink at most one whole packet: what is
\* withheld or about to be is bounded by the collisions reported.
OneWithheldPerReport == withheld + One(sink.do_not_pub) <= reports

\* The inductive invariant behind the two.  Since the tags take turns, interference
\* that begins in a packet is a rising edge of the sink's state as well, and
\* withholds the packet.
HitIsMute == hit => sink.do_not_pub
SinkInv == TagsTakeTurns /\ HitIsMute /\ CollidedNotPublished /\ OneWithheldPerReport

\* The inductive invariant behind the counts.  A stretch of interference raises
\* one tag; the controller is silent for a collision; and each clear signal that
\* is due answers a tag of its own.
StretchRaisesOne == air.voe /\ air.left > 0 /\ ~tagger.state => raised < MaxCollisions
SilentForCause == ctrl.state = "ED_SILENT" => ctrl.voe_cnt > 0
ClearsAnswerTags ==
  clearers.first + clearers.second + ctrl.voe_cnt + Begun(TagsOf(toCtrl)) <= raised

\* When the controller waits for one more burst only, the samples of it that were
\* read are behind every tag it has counted.
BurstBehindTags ==
  ctrl.state = "ED_SILENT" /\ ctrl.voe_cnt = 1 =>
    \A i \in 1..Len(toSink) :
      toSink[i] = "T" => Len(toSink) - i >= ctrl.ed_cnt + IF ctrl.trig THEN Valid ELSE 0
CountInv ==
  /\ TypeOK /\ CollisionsAgree /\ SinkInv
  /\ StretchRaisesOne /\ SilentForCause /\ ClearsAnswerTags /\ BurstBehindTags

\* The controller counts every collision with a tag near its end of the stream, and
\* for one that was reported with the controller near it waits still, or has let a
\* clear signal go that is not out yet.
StopIsOwed ==
  /\ \A i \in 1..Len(toSink) : toSink[i] = "T" /\ Near(i, toSink) => ctrl.voe_cnt > 0
  /\ told = "collision" /\ prompt => ctrl.voe_cnt > 0 \/ clearers.first + clearers.second > 0

\* A transmitter that is stopped by a prompt report is told to go on again: the
\* controller still waits for bursts, finds them, and its clear signal comes after
\* the report.  (Of a report overtaken by its clear signal nothing is promised: the
\* transmitter stays stopped until another collision is cleared.)
EveryStopIsCleared == told = "collision" /\ prompt ~> told = "clear"
=============================================================================
