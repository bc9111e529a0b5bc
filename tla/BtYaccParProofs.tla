--------------------------- MODULE BtYaccParProofs ---------------------------
(***************************************************************************)
(* Proofs about the queue of tokens of btyaccpar.c, for any tables, any    *)
(* input and any outcome of malloc().                                      *)
(*                                                                         *)
(* What the sequences of the parser hold does not matter here, hence       *)
(* IsSeq, which leaves it open.                                            *)
(***************************************************************************)
EXTENDS BtYaccPar, TLAPS

IsSeq(s) == s \in Seq({ s[k] : k \in DOMAIN s })

LEMMA SeqFacts ==
    ASSUME NEW s, IsSeq(s)
    PROVE  /\ Len(s) \in Nat /\ DOMAIN s = 1 .. Len(s)
           /\ s = << >> <=> Len(s) = 0
BY DEF IsSeq

LEMMA SeqIs ==
    ASSUME NEW S, NEW s \in Seq(S)
    PROVE  IsSeq(s)
<1>1. Len(s) \in Nat /\ s \in [1 .. Len(s) -> S] /\ DOMAIN s = 1 .. Len(s) OBVIOUS
<1>2. s \in [1 .. Len(s) -> { s[k] : k \in DOMAIN s }] BY <1>1
<1> QED BY <1>1, <1>2 DEF IsSeq

LEMMA EmptyIs == IsSeq(<< >>) /\ Len(<< >>) = 0 /\ DOMAIN << >> = {}
<1>1. << >> \in Seq({}) OBVIOUS
<1>2. IsSeq(<< >>) BY <1>1, SeqIs
<1>3. Len(<< >>) = 0 OBVIOUS
<1> QED BY <1>2, <1>3, SeqFacts

LEMMA OneIs ==
    ASSUME NEW e
    PROVE  IsSeq(<< e >>) /\ Len(<< e >>) = 1 /\ << e >>[1] = e /\ << e >> # << >>
<1>1. << e >> \in Seq({e}) OBVIOUS
<1> QED BY <1>1, SeqIs

LEMMA AppendFacts ==
    ASSUME NEW s, IsSeq(s), NEW e
    PROVE  /\ IsSeq(Append(s, e))
           /\ Len(Append(s, e)) = Len(s) + 1
           /\ \A k \in 1 .. Len(s) : Append(s, e)[k] = s[k]
           /\ Append(s, e)[Len(s) + 1] = e
<1> DEFINE S == { s[k] : k \in DOMAIN s } \cup {e}
<1>1. s \in Seq(S)
  <2>1. s \in Seq({ s[k] : k \in DOMAIN s }) BY DEF IsSeq
  <2>2. Len(s) \in Nat /\ s \in [1 .. Len(s) -> { s[k] : k \in DOMAIN s }] BY <2>1
  <2>3. s \in [1 .. Len(s) -> S] BY <2>2
  <2> HIDE DEF S
  <2> QED BY <2>2, <2>3
<1>2. e \in S OBVIOUS
<1> HIDE DEF S
<1>3. Append(s, e) \in Seq(S) BY <1>1, <1>2
<1>4. IsSeq(Append(s, e)) BY <1>3, SeqIs
<1> QED BY <1>1, <1>2, <1>4

LEMMA PartFacts ==
    ASSUME NEW s, IsSeq(s), NEW m \in 1 .. Len(s) + 1, NEW n \in 0 .. Len(s), m <= n + 1
    PROVE  /\ IsSeq(SubSeq(s, m, n))
           /\ Len(SubSeq(s, m, n)) = n - m + 1
           /\ \A k \in 1 .. n - m + 1 : SubSeq(s, m, n)[k] = s[m + k - 1]
<1> DEFINE S == { s[k] : k \in DOMAIN s }
           t == SubSeq(s, m, n)
<1>1. s \in Seq(S) /\ Len(s) \in Nat BY DEF IsSeq
<1> HIDE DEF S
<1>2. t \in Seq(S) /\ Len(t) = n - m + 1 /\ \A k \in 1 .. n - m + 1 : t[k] = s[m + k - 1] BY <1>1
<1> QED BY <1>2, SeqIs

LEMMA FrontFacts ==
    ASSUME NEW s, IsSeq(s), s # << >>
    PROVE  /\ IsSeq(Front(s))
           /\ Len(Front(s)) = Len(s) - 1
           /\ \A k \in 1 .. Len(s) - 1 : Front(s)[k] = s[k]
<1>1. Len(s) \in Nat /\ Len(s) > 0 BY SeqFacts
<1>2. 1 \in 1 .. Len(s) + 1 /\ Len(s) - 1 \in 0 .. Len(s) /\ 1 <= (Len(s) - 1) + 1 BY <1>1
<1> DEFINE t == SubSeq(s, 1, Len(s) - 1)
<1>3. IsSeq(t) /\ Len(t) = (Len(s) - 1) - 1 + 1 /\ \A k \in 1 .. (Len(s) - 1) - 1 + 1 : t[k] = s[1 + k - 1]
  BY <1>1, <1>2, PartFacts
<1>4. (Len(s) - 1) - 1 + 1 = Len(s) - 1 BY <1>1
<1>5. \A k \in 1 .. Len(s) - 1 : t[k] = s[1 + k - 1] BY <1>3, <1>4
<1>6. \A k \in 1 .. Len(s) - 1 : 1 + k - 1 = k BY <1>1
<1> HIDE DEF t
<1>7. \A k \in 1 .. Len(s) - 1 : t[k] = s[k] BY <1>5, <1>6
<1>8. Front(s) = t BY DEF Front, t
<1> QED BY <1>3, <1>4, <1>7, <1>8

LEMMA TailFacts ==
    ASSUME NEW s, IsSeq(s), s # << >>
    PROVE  /\ IsSeq(Tail(s))
           /\ Len(Tail(s)) = Len(s) - 1
           /\ \A k \in 1 .. Len(s) - 1 : Tail(s)[k] = s[k + 1]
<1> DEFINE S == { s[k] : k \in DOMAIN s }
<1>1. s \in Seq(S) /\ Len(s) \in Nat /\ Len(s) > 0 BY SeqFacts DEF IsSeq
<1> HIDE DEF S
<1>2. Tail(s) \in Seq(S) BY <1>1
<1>3. IsSeq(Tail(s)) BY <1>2, SeqIs
<1>4. Len(Tail(s)) = Len(s) - 1 /\ \A k \in 1 .. Len(s) - 1 : Tail(s)[k] = s[k + 1] BY <1>1
<1> QED BY <1>3, <1>4

LEMMA LastIs ==
    ASSUME NEW s, IsSeq(s), s # << >>
    PROVE  /\ Len(s) \in 1 .. Len(s)
           /\ Last(s) = s[Len(s)]
BY SeqFacts DEF Last
-----------------------------------------------------------------------------
(* The invariant. *)
HasMark(s) == "lexeme" \in DOMAIN s /\ s.lexeme \in Int /\ s.lexeme < Len(queue)

QueueOK ==
    /\ IsSeq(queue) /\ IsSeq(saved) /\ IsSeq(yypath)
    /\ lvp \in Int /\ yylvlim \in Nat
    /\ lvp <= Len(queue) /\ Len(queue) <= yylvlim

MarksOK ==
    /\ \A k \in DOMAIN saved : HasMark(saved[k])
    /\ \A k \in DOMAIN saved : k > 1 => saved[k - 1].lexeme <= saved[k].lexeme
    /\ \A k \in DOMAIN yypath : HasMark(yypath[k])

(* A lookahead has been read behind the latest conflict. *)
TrialOK ==
    Trial => /\ saved[Len(saved)].lexeme <= lvp
             /\ yychar >= 0 => saved[Len(saved)].lexeme < lvp

ContextOK ==
    /\ yyerrctx # << >> => Trial /\ yyerrctx[1].lexeme \in Int /\ yyerrctx[1].lexeme <= Len(queue)
    /\ yypath # << >> => ~Trial
    /\ pc \in {"yyerrhandler", "yyvalid"} => Trial

LowOK ==
    NoVeto =>
        /\ lvp >= 0
        /\ \A k \in DOMAIN saved : saved[k].lexeme >= 0
        /\ \A k \in DOMAIN yypath : yypath[k].lexeme >= 0
        /\ yychar >= 0 /\ lvp < Len(queue) => lvp >= 1
        /\ yyerrctx # << >> => yyerrctx[1].lexeme >= 1
        /\ pc = "yyerrhandler" => lvp >= 1 \/ yyerrctx # << >>

QueueInv == QueueOK /\ MarksOK /\ TrialOK /\ ContextOK /\ LowOK

LEMMA InvImplies == QueueInv => QueueInBounds
BY DEF QueueInv, QueueOK, MarksOK, HasMark, LowOK, QueueInBounds

LEMMA QueueInit == BtInit => QueueInv
<1> SUFFICES ASSUME BtInit PROVE QueueInv OBVIOUS
<1>1. /\ saved = << >> /\ yypath = << >> /\ queue = << >> /\ lvp = 0 /\ yylvlim = 0
      /\ yyerrctx = << >> /\ pc = "yyparse" /\ yychar = -1
  BY DEF BtInit, Init, YYEMPTY
<1>2. QueueOK BY <1>1, EmptyIs DEF QueueOK
<1>3. MarksOK BY <1>1, EmptyIs DEF MarksOK
<1>4. TrialOK BY <1>1 DEF TrialOK, Trial
<1>5. ContextOK BY <1>1 DEF ContextOK
<1>6. LowOK BY <1>1, EmptyIs DEF LowOK
<1> QED BY <1>2, <1>3, <1>4, <1>5, <1>6 DEF QueueInv

-----------------------------------------------------------------------------
(* What leaves the queue alone. *)
Elsewhere == pc' \notin {"yyerrhandler", "yyvalid"}

LEMMA Unaffected ==
    ASSUME QueueInv, UNCHANGED << tables, trialVars >>, yychar' = yychar \/ yychar' = YYEMPTY,
           Elsewhere
    PROVE  QueueInv'
<1> USE DEF trialVars
<1>1. QueueOK' BY DEF QueueInv, QueueOK
<1>2. MarksOK' BY DEF QueueInv, MarksOK, HasMark
<1>3. TrialOK' BY DEF QueueInv, TrialOK, Trial, YYEMPTY
<1>4. ContextOK' BY DEF QueueInv, ContextOK, Trial, Elsewhere
<1>5. LowOK' BY DEF QueueInv, LowOK, NoVeto, YYEMPTY, Elsewhere
<1> QED BY <1>1, <1>2, <1>3, <1>4, <1>5 DEF QueueInv

(* The latest conflict of a trial. *)
LEMMA Latest ==
    ASSUME QueueInv, Trial
    PROVE  /\ Len(saved) \in Nat /\ Len(saved) >= 1 /\ DOMAIN saved = 1 .. Len(saved)
           /\ Last(saved) = saved[Len(saved)]
           /\ HasMark(Last(saved))
           /\ NoVeto => Last(saved).lexeme >= 0
<1>1. IsSeq(saved) /\ saved # << >> BY DEF QueueInv, QueueOK, Trial
<1>2. Len(saved) \in DOMAIN saved /\ Last(saved) = saved[Len(saved)] BY <1>1, LastIs, SeqFacts
<1> QED BY <1>1, <1>2, SeqFacts DEF QueueInv, MarksOK, LowOK

(* The next token. *)
LEMMA TokenStep ==
    ASSUME YYLVQUEUEGROWTH \in Nat \ {0},
           QueueInv, GetToken, UNCHANGED << tables, saved, yypath, yyerrctx >>, Elsewhere
    PROVE  QueueInv'
<1> USE DEF QueueInv
<1>1. CASE Reread
  <2>1. queue' = queue /\ yylvlim' = yylvlim /\ lvp' = lvp + 1 /\ lvp < Len(queue) BY <1>1 DEF Reread
  <2>2. Len(queue) \in Nat /\ lvp \in Int BY SeqFacts DEF QueueOK
  <2>3. QueueOK' BY <2>1, <2>2 DEF QueueOK
  <2>4. MarksOK' BY <2>1 DEF MarksOK, HasMark
  <2>5. TrialOK'
    <3>1. Trial => saved[Len(saved)].lexeme \in Int BY Latest DEF HasMark
    <3> QED BY <2>1, <2>2, <3>1 DEF TrialOK, Trial
  <2>6. ContextOK' BY <2>1 DEF ContextOK, Trial, Elsewhere
  <2>7. LowOK' BY <2>1, <2>2 DEF LowOK, NoVeto, Elsewhere
  <2> QED BY <2>3, <2>4, <2>5, <2>6, <2>7
<1>2. CASE Queued
  <2>1. PICK e : queue' = Append(queue, e) BY <1>2 DEF Queued
  <2>2. /\ lvp = Len(queue) /\ lvp' = lvp + 1
        /\ yylvlim' = IF lvp = yylvlim THEN yylvlim + YYLVQUEUEGROWTH ELSE yylvlim
    BY <1>2 DEF Queued
  <2>3. Len(queue) \in Nat /\ IsSeq(queue') /\ Len(queue') = Len(queue) + 1
    BY <2>1, SeqFacts, AppendFacts DEF QueueOK
  <2>4. QueueOK' BY <2>2, <2>3 DEF QueueOK
  <2>5. MarksOK' BY <2>3 DEF MarksOK, HasMark
  <2>6. TrialOK'
    <3>1. Trial => saved[Len(saved)].lexeme \in Int BY Latest DEF HasMark
    <3> QED BY <2>2, <2>3, <3>1 DEF TrialOK, Trial
  <2>7. ContextOK' BY <2>3 DEF ContextOK, Trial, Elsewhere
  <2>8. LowOK' BY <2>2, <2>3 DEF LowOK, NoVeto, Elsewhere
  <2> QED BY <2>4, <2>5, <2>6, <2>7, <2>8
<1>3. CASE Unqueued
  <2>1. queue' = queue /\ yylvlim' = yylvlim /\ lvp' = lvp /\ lvp = Len(queue) /\ ~Trial
    BY <1>3 DEF Unqueued, queueVars
  <2>2. QueueOK' BY <2>1 DEF QueueOK
  <2>3. MarksOK' BY <2>1 DEF MarksOK, HasMark
  <2>4. TrialOK' BY <2>1 DEF TrialOK, Trial
  <2>5. ContextOK' BY <2>1 DEF ContextOK, Trial, Elsewhere
  <2>6. Len(queue) \in Nat BY SeqFacts DEF QueueOK
  <2>7. LowOK' BY <2>1, <2>6 DEF LowOK, NoVeto, Elsewhere
  <2> QED BY <2>2, <2>3, <2>4, <2>5, <2>7
<1> QED BY <1>1, <1>2, <1>3 DEF GetToken
-----------------------------------------------------------------------------
(* Conflicts. *)
LEMMA TakeMoves ==
    ASSUME NEW ctry, NEW c, NEW pos, Take(ctry, c, pos)
    PROVE  /\ lvp' = pos \/ (~(c >= 0) /\ lvp' = pos + 1)
           /\ yychar' = c \/ yychar' = YYEMPTY
           /\ Elsewhere
<1>1. CASE ctry = Entry
  <2>1. Push(yystack, yyctable(ctry), "yyloop") BY <1>1 DEF Take
  <2>2. pc' \in {"yyloop", "yyoverflow"} BY <2>1 DEF Push
  <2> QED BY <1>1, <2>2 DEF Take, Elsewhere
<1>2. CASE ctry # Entry
  BY <1>2 DEF Take, Elsewhere
<1> QED BY <1>1, <1>2

LEMMA FollowPathStep ==
    ASSUME QueueInv, FollowPath, UNCHANGED tables
    PROVE  QueueInv'
<1> USE DEF QueueInv
<1>1. /\ yypath # << >> /\ yypath' = Tail(yypath) /\ yychar >= 0
      /\ UNCHANGED << saved, queue, yylvlim, yyerrctx >>
  BY DEF FollowPath, Conflict, Ready
<1>2. lvp' = lvp /\ (yychar' = yychar \/ yychar' = YYEMPTY) /\ Elsewhere
  <2>1. CASE Last(Head(yypath).stack) # yystate BY <2>1 DEF FollowPath, Elsewhere
  <2>2. CASE Last(Head(yypath).stack) = yystate
    <3>1. Take(Head(yypath).ctry, yychar, lvp) BY <2>2 DEF FollowPath
    <3> QED BY <3>1, <1>1, TakeMoves
  <2> QED BY <2>1, <2>2
<1>3. IsSeq(yypath') /\ Len(yypath) \in Nat /\ Len(yypath') = Len(yypath) - 1
      /\ \A k \in 1 .. Len(yypath) - 1 : yypath'[k] = yypath[k + 1]
  BY <1>1, TailFacts, SeqFacts DEF QueueOK
<1>4. DOMAIN yypath = 1 .. Len(yypath) /\ DOMAIN yypath' = 1 .. Len(yypath) - 1
  BY <1>3, SeqFacts DEF QueueOK
<1>5. \A k \in DOMAIN yypath' : k + 1 \in DOMAIN yypath /\ yypath'[k] = yypath[k + 1] BY <1>3, <1>4
<1>6. ~Trial BY <1>1 DEF ContextOK
<1>7. QueueOK' BY <1>1, <1>2, <1>3 DEF QueueOK
<1>8. MarksOK' BY <1>1, <1>5 DEF MarksOK, HasMark
<1>9. TrialOK' BY <1>1, <1>6 DEF TrialOK, Trial
<1>10. ContextOK' BY <1>1, <1>2, <1>6 DEF ContextOK, Trial, Elsewhere
<1>11. LowOK' BY <1>1, <1>2, <1>5 DEF LowOK, NoVeto, YYEMPTY, Elsewhere
<1> QED BY <1>7, <1>8, <1>9, <1>10, <1>11

LEMMA StartTrialStep ==
    ASSUME YYLVQUEUEGROWTH \in Nat \ {0}, QueueInv, StartTrial, UNCHANGED tables
    PROVE  QueueInv'
<1> DEFINE ctry == IF yyctable(Entry) = -1 THEN Entry + 1 ELSE Entry
           pos == IF NewQueue THEN 0 ELSE lvp - 1
           r == Record(ctry, pos)
<1> USE DEF QueueInv
<1>1. /\ yypath = << >> /\ yypath' = << >> /\ yyerrctx' = yyerrctx /\ yychar >= 0
      /\ saved' = Append(saved, r)
      /\ queue' = IF NewQueue THEN << [token |-> yychar, value |-> yylval] >> ELSE queue
      /\ yylvlim' = IF ~Trial /\ yylvlim = 0 THEN YYLVQUEUEGROWTH ELSE yylvlim
      /\ Take(ctry, YYEMPTY, pos)
  BY DEF StartTrial, Conflict, Ready
<1>2. lvp \in Int /\ Len(queue) \in Nat /\ Len(saved) \in Nat /\ DOMAIN saved = 1 .. Len(saved)
  BY SeqFacts DEF QueueOK
<1>3. lvp' \in {pos, pos + 1} /\ yychar' = -1 /\ Elsewhere BY <1>1, TakeMoves DEF YYEMPTY
<1>4. "lexeme" \in DOMAIN r /\ r.lexeme = pos BY DEF Record
<1> HIDE DEF r
<1>5. /\ IsSeq(saved') /\ Len(saved') = Len(saved) + 1 /\ saved' # << >>
      /\ saved'[Len(saved) + 1] = r
      /\ \A k \in 1 .. Len(saved) : saved'[k] = saved[k]
  BY <1>1, <1>2, AppendFacts, SeqFacts DEF QueueOK
<1>6. DOMAIN saved' = 1 .. Len(saved) + 1 BY <1>5, SeqFacts
<1>7. Trial => HasMark(saved[Len(saved)]) /\ saved[Len(saved)].lexeme < lvp
               /\ (NoVeto => saved[Len(saved)].lexeme >= 0)
  BY <1>1, Latest DEF TrialOK
(* Where the token is put back to. *)
<1>8. /\ IsSeq(queue') /\ Len(queue') \in Nat
      /\ pos \in Int /\ pos < Len(queue')
      /\ yylvlim' \in Nat /\ Len(queue') <= yylvlim'
      /\ Len(queue) <= Len(queue') \/ ~Trial
      /\ Trial => saved[Len(saved)].lexeme <= pos
      /\ NoVeto => pos >= 0
  <2>1. CASE NewQueue
    <3>1. IsSeq(queue') /\ Len(queue') = 1 BY <1>1, <2>1, OneIs
    <3>2. yylvlim' \in Nat /\ yylvlim' >= 1 BY <1>1, <2>1 DEF QueueOK, NewQueue
    <3> QED BY <2>1, <3>1, <3>2 DEF NewQueue
  <2>2. CASE ~NewQueue
    <3>1. queue' = queue /\ pos = lvp - 1 BY <1>1, <2>2
    <3>2. IsSeq(queue) /\ yylvlim' \in Nat /\ Len(queue) <= yylvlim' BY <1>1, <1>2 DEF QueueOK
    <3>3. lvp <= Len(queue) BY DEF QueueOK
    <3>4. Trial => saved[Len(saved)].lexeme \in Int /\ saved[Len(saved)].lexeme <= lvp - 1
      BY <1>2, <1>7 DEF HasMark
    <3>5. NoVeto => lvp >= 1
      <4>1. CASE Trial BY <4>1, <1>2, <1>7 DEF HasMark
      <4>2. CASE ~Trial
        <5>1. lvp < Len(queue) BY <4>2, <2>2, <3>3, <1>2 DEF NewQueue
        <5> QED BY <5>1, <1>1 DEF LowOK
      <4> QED BY <4>1, <4>2
    <3> QED BY <3>1, <3>2, <3>3, <3>4, <3>5, <1>2
  <2> QED BY <2>1, <2>2
<1> HIDE DEF pos, ctry
<1> DEFINE Good(s) == /\ "lexeme" \in DOMAIN s /\ s.lexeme \in Int /\ s.lexeme < Len(queue')
                      /\ NoVeto => s.lexeme >= 0
<1>9. \A k \in DOMAIN saved' : Good(saved'[k])
  <2>1. ASSUME NEW k \in DOMAIN saved' PROVE Good(saved'[k])
    <3>1. CASE k = Len(saved) + 1 BY <3>1, <1>4, <1>5, <1>8 DEF HasMark
    <3>2. CASE k # Len(saved) + 1
      <4>1. k \in 1 .. Len(saved) /\ k \in DOMAIN saved /\ saved'[k] = saved[k]
        BY <3>2, <1>2, <1>5, <1>6
      <4>2. Trial BY <4>1, EmptyIs DEF Trial
      <4>3. Len(queue) <= Len(queue') BY <4>2, <1>8
      <4>4. HasMark(saved[k]) /\ (NoVeto => saved[k].lexeme >= 0) BY <4>1 DEF MarksOK, LowOK
      <4> QED BY <4>1, <4>3, <4>4, <1>2, <1>8 DEF HasMark
    <3> QED BY <3>1, <3>2
  <2> QED BY <2>1
<1>10. \A k \in DOMAIN saved' : k > 1 => saved'[k - 1].lexeme <= saved'[k].lexeme
  <2>1. ASSUME NEW k \in DOMAIN saved', k > 1 PROVE saved'[k - 1].lexeme <= saved'[k].lexeme
    <3>1. k - 1 \in 1 .. Len(saved) /\ saved'[k - 1] = saved[k - 1] BY <2>1, <1>2, <1>5, <1>6
    <3>2. CASE k = Len(saved) + 1
      <4>1. k - 1 = Len(saved) BY <3>2, <1>2
      <4>2. Trial BY <3>1, <1>2, EmptyIs DEF Trial
      <4>3. saved[Len(saved)].lexeme <= pos BY <4>2, <1>8
      <4> QED BY <3>1, <3>2, <4>1, <4>3, <1>4, <1>5
    <3>3. CASE k # Len(saved) + 1
      <4>1. k \in 1 .. Len(saved) /\ saved'[k] = saved[k] BY <3>3, <1>2, <1>5, <1>6
      <4> QED BY <2>1, <3>1, <4>1, <1>2 DEF MarksOK
    <3> QED BY <3>2, <3>3
  <2> QED BY <2>1
<1>11. QueueOK' BY <1>1, <1>3, <1>5, <1>8, EmptyIs DEF QueueOK
<1>12. MarksOK' BY <1>1, <1>9, <1>10, EmptyIs DEF MarksOK, HasMark
<1>13. TrialOK' BY <1>3, <1>4, <1>5, <1>8 DEF TrialOK
<1>14. ContextOK'
  <2>1. yyerrctx # << >> => Len(queue) <= Len(queue') BY <1>8 DEF ContextOK
  <2> QED BY <2>1, <1>1, <1>2, <1>3, <1>5, <1>8 DEF ContextOK, Trial, Elsewhere
<1>15. LowOK' BY <1>1, <1>3, <1>8, <1>9, EmptyIs DEF LowOK, NoVeto, Elsewhere
<1> QED BY <1>11, <1>12, <1>13, <1>14, <1>15
-----------------------------------------------------------------------------
(* A trial fails, or ends well. *)
LEMMA TrialErrorStep ==
    ASSUME QueueInv, TrialError, UNCHANGED tables
    PROVE  QueueInv'
<1> USE DEF QueueInv, btVars
<1>1. UNCHANGED btVars /\ yychar' = yychar /\ yychar >= 0 /\ Trial /\ pc' = "yyerrhandler"
  BY DEF TrialError, NoAction, Ready
<1>2. QueueOK' BY <1>1 DEF QueueOK
<1>3. MarksOK' BY <1>1 DEF MarksOK, HasMark
<1>4. TrialOK' BY <1>1 DEF TrialOK, Trial
<1>5. ContextOK' BY <1>1 DEF ContextOK, Trial
<1>6. NoVeto => lvp >= 1
  <2>1. saved[Len(saved)].lexeme < lvp BY <1>1 DEF TrialOK
  <2>2. saved[Len(saved)].lexeme \in Int /\ (NoVeto => saved[Len(saved)].lexeme >= 0)
    BY <1>1, Latest DEF HasMark
  <2>3. lvp \in Int BY DEF QueueOK
  <2> QED BY <2>1, <2>2, <2>3
<1>7. LowOK' BY <1>1, <1>6 DEF LowOK, NoVeto
<1> QED BY <1>2, <1>3, <1>4, <1>5, <1>7

LEMMA BracketActionFailsStep ==
    ASSUME QueueInv, BracketActionFails, UNCHANGED tables
    PROVE  QueueInv'
<1> USE DEF QueueInv, trialVars
<1>1. UNCHANGED trialVars /\ yychar' = yychar /\ pc' = IF Trial THEN "yyerrhandler" ELSE "yyinrecovery"
  BY DEF BracketActionFails, Yyerrlab
<1>2. ~NoVeto BY DEF BracketActionFails, Reducing, MacroOf, NoVeto
<1>3. QueueOK' BY <1>1 DEF QueueOK
<1>4. MarksOK' BY <1>1 DEF MarksOK, HasMark
<1>5. TrialOK' BY <1>1 DEF TrialOK, Trial
<1>6. ContextOK' BY <1>1 DEF ContextOK, Trial
<1>7. LowOK' BY <1>2 DEF LowOK, NoVeto
<1> QED BY <1>3, <1>4, <1>5, <1>6, <1>7

LEMMA BracketActionValidatesStep ==
    ASSUME QueueInv, BracketActionValidates, UNCHANGED tables
    PROVE  QueueInv'
<1> USE DEF QueueInv, btVars
<1>1. UNCHANGED btVars /\ yychar' = yychar /\ Trial /\ pc' = "yyvalid"
  BY DEF BracketActionValidates, Validates
<1>2. QueueOK' BY <1>1 DEF QueueOK
<1>3. MarksOK' BY <1>1 DEF MarksOK, HasMark
<1>4. TrialOK' BY <1>1 DEF TrialOK, Trial
<1>5. ContextOK' BY <1>1 DEF ContextOK, Trial
<1>6. LowOK' BY <1>1 DEF LowOK, NoVeto
<1> QED BY <1>2, <1>3, <1>4, <1>5, <1>6

LEMMA ContextMark ==
    ASSUME QueueInv, pc = "yyerrhandler"
    PROVE  /\ Farthest.lexeme \in Int /\ Farthest.lexeme <= Len(queue)
           /\ NoVeto => Farthest.lexeme >= 1
<1>1. Record(0, lvp).lexeme = lvp BY DEF Record
<1>2. lvp \in Int /\ lvp <= Len(queue) /\ (NoVeto /\ yyerrctx = << >> => lvp >= 1)
  BY DEF QueueInv, QueueOK, LowOK
<1>3. yyerrctx # << >> => /\ yyerrctx[1].lexeme \in Int /\ yyerrctx[1].lexeme <= Len(queue)
                          /\ NoVeto => yyerrctx[1].lexeme >= 1
  BY DEF QueueInv, ContextOK, LowOK
<1> QED BY <1>1, <1>2, <1>3 DEF Farthest

LEMMA NextAlternativeStep ==
    ASSUME QueueInv, NextAlternative, UNCHANGED tables
    PROVE  QueueInv'
<1> DEFINE n == Len(saved)
           c == saved[n].ctry + 1
<1> USE DEF QueueInv
<1>1. /\ pc = "yyerrhandler" /\ pc' = "yyreduce" /\ yychar' = -1
      /\ UNCHANGED << yypath, queue, yylvlim >> /\ yyerrctx' = << Farthest >>
  BY DEF NextAlternative, YYEMPTY
<1>2. Trial BY <1>1 DEF ContextOK
<1>3. /\ n \in DOMAIN saved /\ DOMAIN saved = 1 .. n /\ Last(saved) = saved[n]
      /\ HasMark(saved[n]) /\ (NoVeto => saved[n].lexeme >= 0)
  BY <1>2, Latest
<1>4. lvp' = saved[n].lexeme /\ saved' = [saved EXCEPT ![n].ctry = c]
  BY <1>3 DEF NextAlternative, Restore
<1>5. IsSeq(saved') /\ Len(saved') = n /\ DOMAIN saved' = DOMAIN saved
  <2> DEFINE S == { saved[k] : k \in DOMAIN saved } \cup { [saved[n] EXCEPT !.ctry = c] }
  <2>1. saved \in Seq({ saved[k] : k \in DOMAIN saved }) BY DEF QueueOK, IsSeq
  <2>2. saved \in [1 .. n -> S] /\ n \in Nat BY <2>1
  <2>3. [saved[n] EXCEPT !.ctry = c] \in S OBVIOUS
  <2> HIDE DEF S
  <2>4. saved' \in [1 .. n -> S] BY <1>3, <1>4, <2>2, <2>3
  <2>5. saved' \in Seq(S) BY <2>2, <2>4
  <2> QED BY <1>3, <2>4, <2>5, SeqIs, SeqFacts
<1>6. ASSUME NEW k \in DOMAIN saved
      PROVE  saved'[k].lexeme = saved[k].lexeme /\ "lexeme" \in DOMAIN saved'[k]
  <2>1. HasMark(saved[k]) BY DEF MarksOK
  <2>2. CASE k = n BY <2>1, <2>2, <1>4 DEF HasMark
  <2>3. CASE k # n BY <2>1, <2>3, <1>4 DEF HasMark
  <2> QED BY <2>2, <2>3
<1>7. saved' # << >> BY <1>3, <1>5, EmptyIs
<1> HIDE DEF c
<1>8. QueueOK' BY <1>1, <1>3, <1>4, <1>5, SeqFacts DEF QueueOK, HasMark
<1>9. MarksOK'
  <2>1. \A k \in DOMAIN saved' : HasMark(saved[k])' BY <1>1, <1>5, <1>6 DEF MarksOK, HasMark
  <2>2. \A k \in DOMAIN saved' : k > 1 => saved'[k - 1].lexeme <= saved'[k].lexeme
    <3>1. \A k \in DOMAIN saved : k > 1 => k - 1 \in DOMAIN saved BY <1>3
    <3> QED BY <3>1, <1>5, <1>6 DEF MarksOK
  <2> QED BY <2>1, <2>2, <1>1 DEF MarksOK, HasMark
<1>10. TrialOK' BY <1>1, <1>3, <1>4, <1>5, <1>6 DEF TrialOK, HasMark
<1>11. ContextOK' BY <1>1, <1>2, <1>7, ContextMark DEF ContextOK, Trial
<1>12. LowOK' BY <1>1, <1>3, <1>4, <1>5, <1>6, ContextMark DEF LowOK, NoVeto
<1> QED BY <1>8, <1>9, <1>10, <1>11, <1>12

LEMMA DropConflictStep ==
    ASSUME QueueInv, DropConflict, UNCHANGED tables
    PROVE  QueueInv'
<1> DEFINE n == Len(saved)
<1> USE DEF QueueInv
<1>1. /\ pc = "yyerrhandler" /\ pc' = pc /\ yychar' = -1 /\ n > 1
      /\ UNCHANGED << yypath, queue, yylvlim >> /\ yyerrctx' = << Farthest >>
      /\ saved' = Front(saved) /\ lvp' = Last(saved).lexeme
  BY DEF DropConflict, Exhausted, Restore, YYEMPTY
<1>2. Trial BY <1>1 DEF ContextOK
<1>3. /\ n \in Nat /\ DOMAIN saved = 1 .. n /\ Last(saved) = saved[n]
      /\ HasMark(saved[n]) /\ (NoVeto => saved[n].lexeme >= 0)
  BY <1>2, Latest
<1>4. IsSeq(saved') /\ Len(saved') = n - 1 /\ \A k \in 1 .. n - 1 : saved'[k] = saved[k]
  BY <1>1, <1>2, FrontFacts DEF QueueOK, Trial
<1>5. DOMAIN saved' = 1 .. n - 1 /\ saved' # << >> BY <1>1, <1>3, <1>4, SeqFacts
<1>6. \A k \in DOMAIN saved' : k \in DOMAIN saved /\ saved'[k] = saved[k] BY <1>3, <1>4, <1>5
<1>7. QueueOK' BY <1>1, <1>3, <1>4, SeqFacts DEF QueueOK, HasMark
<1>8. MarksOK'
  <2>1. \A k \in DOMAIN saved' : k > 1 => saved'[k - 1].lexeme <= saved'[k].lexeme
    <3>1. \A k \in DOMAIN saved' : k > 1 => k - 1 \in DOMAIN saved' BY <1>3, <1>5
    <3> QED BY <3>1, <1>6 DEF MarksOK
  <2> QED BY <2>1, <1>1, <1>6 DEF MarksOK, HasMark
<1>9. TrialOK'
  <2>1. n - 1 \in 1 .. n /\ saved'[n - 1] = saved[n - 1] BY <1>1, <1>3, <1>4
  <2>2. saved[n - 1].lexeme <= saved[n].lexeme BY <1>1, <1>3 DEF MarksOK
  <2> QED BY <1>1, <1>3, <1>4, <2>1, <2>2 DEF TrialOK
<1>10. ContextOK' BY <1>1, <1>2, <1>5, ContextMark DEF ContextOK, Trial
<1>11. LowOK' BY <1>1, <1>3, <1>6, ContextMark DEF LowOK, NoVeto
<1> QED BY <1>7, <1>8, <1>9, <1>10, <1>11

LEMMA TrialFailedStep ==
    ASSUME QueueInv, TrialFailed, UNCHANGED tables
    PROVE  QueueInv'
<1> USE DEF QueueInv
<1>1. /\ pc = "yyerrhandler" /\ pc' = "yyinrecovery"
      /\ UNCHANGED << yypath, queue, yylvlim >> /\ yyerrctx' = << >> /\ saved' = << >>
      /\ lvp' = Farthest.lexeme
  BY DEF TrialFailed, Exhausted, Restore
<1>2. QueueOK' BY <1>1, ContextMark, EmptyIs DEF QueueOK
<1>3. MarksOK' BY <1>1, EmptyIs DEF MarksOK, HasMark
<1>4. TrialOK' BY <1>1 DEF TrialOK, Trial
<1>5. ContextOK' BY <1>1 DEF ContextOK, Trial
<1>6. LowOK' BY <1>1, ContextMark, EmptyIs DEF LowOK, NoVeto
<1> QED BY <1>2, <1>3, <1>4, <1>5, <1>6

LEMMA ValidStep ==
    ASSUME QueueInv, Valid, UNCHANGED tables
    PROVE  QueueInv'
<1>1. CASE yypath # << >>
  <2>1. UNCHANGED << tables, trialVars >> /\ yychar' = yychar /\ Elsewhere
    BY <1>1 DEF Valid, trialVars, Elsewhere
  <2> QED BY <2>1, Unaffected
<1>2. CASE yypath = << >>
  <2> USE DEF QueueInv
  <2>1. /\ pc' = "yyloop" /\ yypath' = saved /\ saved' = << >> /\ yyerrctx' = << >> /\ yychar' = -1
        /\ UNCHANGED << queue, yylvlim >> /\ lvp' = Head(saved).lexeme
    BY <1>2 DEF Valid, Restore, YYEMPTY
  <2>2. Trial BY DEF Valid, AtValid, ContextOK
  <2>3. 1 \in DOMAIN saved /\ Head(saved) = saved[1]
    <3>1. IsSeq(saved) BY DEF QueueOK
    <3> QED BY <2>2, <3>1, SeqFacts, Latest DEF IsSeq
  <2>4. HasMark(saved[1]) /\ (NoVeto => saved[1].lexeme >= 0) BY <2>3 DEF MarksOK, LowOK
  <2>5. QueueOK' BY <2>1, <2>3, <2>4, EmptyIs, SeqFacts DEF QueueOK, HasMark
  <2>6. MarksOK' BY <2>1, EmptyIs DEF MarksOK, HasMark
  <2>7. TrialOK' BY <2>1 DEF TrialOK, Trial
  <2>8. ContextOK' BY <2>1 DEF ContextOK, Trial
  <2>9. LowOK' BY <2>1, <2>3, <2>4, EmptyIs DEF LowOK, NoVeto
  <2> QED BY <2>5, <2>6, <2>7, <2>8, <2>9
<1> QED BY <1>1, <1>2
-----------------------------------------------------------------------------
(* The other actions do not move in the queue, except to read on. *)
LEMMA OtherSteps ==
    ASSUME YYLVQUEUEGROWTH \in Nat \ {0}, QueueInv, UNCHANGED tables,
           \/ BtStart \/ (DefaultReduce /\ UNCHANGED btVars) \/ BtLex \/ CannotSave
           \/ BtShift \/ BtReduce \/ TableError \/ CannotRemember
           \/ BtRecovery \/ BtGoto \/ BtFinalState \/ BraceActionJumps \/ NoMemory
    PROVE  QueueInv'
<1> DEFINE Quiet == UNCHANGED trialVars /\ (yychar' = yychar \/ yychar' = YYEMPTY) /\ Elsewhere
<1>1. CASE BtStart
  <2>1. Quiet BY <1>1 DEF BtStart, StartParser, btVars, trialVars, Elsewhere
  <2> QED BY <2>1, Unaffected
<1>2. CASE DefaultReduce /\ UNCHANGED btVars
  <2>1. Quiet BY <1>2 DEF DefaultReduce, btVars, trialVars, Elsewhere
  <2> QED BY <2>1, Unaffected
<1>3. CASE BtLex
  <2>1. CASE GetToken /\ UNCHANGED pc
    <3>1. UNCHANGED << saved, yypath, yyerrctx >> /\ Elsewhere BY <1>3, <2>1 DEF BtLex, Elsewhere
    <3> QED BY <2>1, <3>1, TokenStep
  <2>2. CASE pc' = "yyenomem" /\ UNCHANGED << yychar, yylval, read, queueVars >>
    <3>1. Quiet BY <1>3, <2>2 DEF BtLex, queueVars, trialVars, Elsewhere
    <3> QED BY <3>1, Unaffected
  <2> QED BY <1>3, <2>1, <2>2 DEF BtLex
<1>4. CASE CannotSave
  <2>1. Quiet BY <1>4 DEF CannotSave, btVars, trialVars, Elsewhere
  <2> QED BY <2>1, Unaffected
<1>5. CASE BtShift
  <2>1. Push(yystack, At(tables.sindex[yystate], yychar), "yyloop") BY <1>5 DEF BtShift, Shift
  <2>2. pc' \in {"yyloop", "yyoverflow"} BY <2>1 DEF Push
  <2>3. Quiet BY <1>5, <2>2 DEF BtShift, Shift, trialVars, Elsewhere
  <2> QED BY <2>3, Unaffected
<1>6. CASE BtReduce
  <2>1. Quiet BY <1>6 DEF BtReduce, Reduce, btVars, trialVars, Elsewhere
  <2> QED BY <2>1, Unaffected
<1>7. CASE TableError
  <2>1. Quiet BY <1>7 DEF TableError, SyntaxError, btVars, trialVars, Elsewhere
  <2> QED BY <2>1, Unaffected
<1>8. CASE CannotRemember
  <2>1. Quiet BY <1>8 DEF CannotRemember, btVars, trialVars, Elsewhere
  <2> QED BY <2>1, Unaffected
<1>9. CASE BtRecovery
  <2>1. CASE (StartRecovery \/ DiscardToken) /\ UNCHANGED btVars
    BY <2>1, Unaffected DEF StartRecovery, DiscardToken, btVars, trialVars, Elsewhere
  <2>2. CASE ShiftError /\ UNCHANGED << yylval, trialVars >>
    <3>1. Push(yystack, At(tables.sindex[yystate], tables.YYERRCODE), "yyloop") BY <2>2 DEF ShiftError
    <3>2. pc' \in {"yyloop", "yyoverflow"} BY <3>1 DEF Push
    <3>3. Quiet BY <2>2, <3>2 DEF ShiftError, trialVars, Elsewhere
    <3> QED BY <3>3, Unaffected
  <2>3. CASE DiscardState /\ UNCHANGED << yylval, trialVars >>
    <3>1. Quiet BY <2>3 DEF DiscardState, trialVars, Elsewhere
    <3> QED BY <3>1, Unaffected
  <2> QED BY <1>9, <2>1, <2>2, <2>3 DEF BtRecovery
<1>10. CASE BtGoto
  <2>1. Push(Rest, GotoState, "yyloop") BY <1>10 DEF BtGoto, Goto
  <2>2. pc' \in {"yyloop", "yyoverflow"} BY <2>1 DEF Push
  <2>3. Quiet BY <1>10, <2>2 DEF BtGoto, Goto, trialVars, Elsewhere
  <2> QED BY <2>3, Unaffected
<1>11. CASE BtFinalState
  <2>1. CASE GetToken /\ Elsewhere
    <3>1. UNCHANGED << saved, yypath, yyerrctx >> BY <1>11 DEF BtFinalState
    <3> QED BY <2>1, <3>1, TokenStep
  <2>2. CASE UNCHANGED << yychar, read, yylval, queueVars >> /\ Elsewhere
    <3>1. Quiet BY <1>11, <2>2 DEF BtFinalState, queueVars, trialVars
    <3> QED BY <3>1, Unaffected
  <2> QED BY <1>11, <2>1, <2>2 DEF BtFinalState, Elsewhere
<1>12. CASE BraceActionJumps
  <2>1. ~Trial /\ UNCHANGED trialVars /\ yychar' = yychar BY <1>12 DEF BraceActionJumps
  <2>2. Elsewhere BY <1>12, <2>1 DEF BraceActionJumps, Yyerrlab, Elsewhere
  <2> QED BY <2>1, <2>2, Unaffected
<1>13. CASE NoMemory
  <2>1. Quiet BY <1>13 DEF NoMemory, btVars, trialVars, Elsewhere
  <2> QED BY <2>1, Unaffected
<1> QED BY <1>1, <1>2, <1>3, <1>4, <1>5, <1>6, <1>7, <1>8, <1>9, <1>10, <1>11, <1>12, <1>13

LEMMA QueueStep ==
    ASSUME YYLVQUEUEGROWTH \in Nat \ {0}, QueueInv,
           [BtNext /\ UNCHANGED tables]_<< tables, parserVars, btVars >>
    PROVE  QueueInv'
<1>1. CASE UNCHANGED << tables, parserVars, btVars >>
  <2> USE DEF QueueInv, parserVars, btVars
  <2>1. QueueOK' BY <1>1 DEF QueueOK
  <2>2. MarksOK' BY <1>1 DEF MarksOK, HasMark
  <2>3. TrialOK' BY <1>1 DEF TrialOK, Trial
  <2>4. ContextOK' BY <1>1 DEF ContextOK, Trial
  <2>5. LowOK' BY <1>1 DEF LowOK, NoVeto
  <2> QED BY <2>1, <2>2, <2>3, <2>4, <2>5
<1>2. CASE BtNext /\ UNCHANGED tables
  <2>1. CASE FollowPath BY <1>2, <2>1, FollowPathStep
  <2>2. CASE StartTrial BY <1>2, <2>2, StartTrialStep
  <2>3. CASE TrialError BY <1>2, <2>3, TrialErrorStep
  <2>4. CASE NextAlternative BY <1>2, <2>4, NextAlternativeStep
  <2>5. CASE DropConflict BY <1>2, <2>5, DropConflictStep
  <2>6. CASE TrialFailed BY <1>2, <2>6, TrialFailedStep
  <2>7. CASE BracketActionFails BY <1>2, <2>7, BracketActionFailsStep
  <2>8. CASE BracketActionValidates BY <1>2, <2>8, BracketActionValidatesStep
  <2>9. CASE Valid BY <1>2, <2>9, ValidStep
  <2>10. CASE \/ BtStart \/ (DefaultReduce /\ UNCHANGED btVars) \/ BtLex \/ CannotSave
              \/ BtShift \/ BtReduce \/ TableError \/ CannotRemember
              \/ BtRecovery \/ BtGoto \/ BtFinalState \/ BraceActionJumps \/ NoMemory
    BY <1>2, <2>10, OtherSteps
  <2> QED BY <1>2, <2>1, <2>2, <2>3, <2>4, <2>5, <2>6, <2>7, <2>8, <2>9, <2>10 DEF BtNext
<1> QED BY <1>1, <1>2

-----------------------------------------------------------------------------
(***************************************************************************)
(* Whatever the tables are, however long the trials and however deep the   *)
(* conflicts in them: the tokens queued are never more than was allocated  *)
(* for, and wherever the parser returns to, after a trial or to begin the  *)
(* full parse, is in the queue (btyaccpar.c:524, 610, 784).                *)
(***************************************************************************)
THEOREM TokensStayQueued ==
    ASSUME YYLVQUEUEGROWTH \in Nat \ {0}
    PROVE  BtSpec => []QueueInBounds
<1>1. BtInit => QueueInv BY QueueInit
<1>2. QueueInv /\ [BtNext /\ UNCHANGED tables]_<< tables, parserVars, btVars >> => QueueInv'
  BY QueueStep
<1>3. QueueInv => QueueInBounds BY InvImplies
<1> QED BY <1>1, <1>2, <1>3, PTL DEF BtSpec
=============================================================================
