----------------------- MODULE MetabaseBootstrap_proofs -----------------------
(***************************************************************************)
(* Theorems about MetabaseBootstrap for any list of dashboards, any number *)
(* of operators, runs and versions of the script and any number of calls   *)
(* that outlive their clients.                                             *)
(*                                                                         *)
(* What holds at all times is a contract between the calls and the server: *)
(* every call under way, of a run or of a client that is gone, is one the  *)
(* server can carry out now without hurting what is there (Legal, RunOK),  *)
(* and because Metabase only grows, it stays so until it is carried out    *)
(* (Grows).  What holds only while runs have not met (clean) is stated on  *)
(* top of it.                                                              *)
(***************************************************************************)
EXTENDS MetabaseBootstrap, SequenceTheorems, TLAPS

RunType   == [pc : Steps, ver : 0..MaxCode, section : Boards, polls : 0..Polls,
              db : Nat, seen : SUBSET Tables, cards : Seq(Nat), found : Nat]
DbType    == [synced : BOOLEAN, tables : SUBSET Tables]
CardType  == [name : CardNames, db : Nat, ver : 1..MaxCode]
BoardType == [name : Boards, cards : Seq(Nat)]

\* The cards are the first ones that version v gives dashboard s, in its order.
Named(s, v, mine) ==
  \A i \in 1..Len(mine) :
    mine[i] \in 1..Len(cards) /\ cards[mine[i]].name = <<s, Listed(s, v)[i]>>

\* They are all the cards that some version gives it.
Whole(s, mine) ==
  /\ mine \in Seq(Nat)
  /\ \E v \in 1..MaxCode : Len(mine) = Len(Listed(s, v)) /\ Named(s, v, mine)

ServerOK ==
  /\ dbs \in Seq(DbType) /\ cards \in Seq(CardType) /\ boards \in Seq(BoardType)
  /\ \A c \in 1..Len(cards) : cards[c].db \in 1..Len(dbs)
  /\ \A b \in 1..Len(boards) :
       boards[b].cards = <<>> \/ Whole(boards[b].name, boards[b].cards)

\* A call the server may carry out now.
Legal(q) ==
  \/ q.call \in {"setup", "postDb"}
  \/ /\ q.call = "postCard"
     /\ q.body \in CardType /\ q.body.db \in 1..Len(dbs)
  \/ /\ q.call = "putCard"
     /\ q.id \in 1..Len(cards)
     /\ q.body \in CardType /\ q.body.db \in 1..Len(dbs)
     /\ q.body.name = cards[q.id].name
  \/ /\ q.call = "postBoard"
     /\ q.id \in Boards
  \/ /\ q.call = "putBoard"
     /\ q.id \in 1..Len(boards) /\ Whole(boards[q.id].name, q.body)

Early   == {"idle", "health", "login", "setup", "again", "findDb", "postDb",
            "pollDb", "checkDb"}
AtCard  == {"findCard", "putCard", "postCard"}
AtBoard == {"findBoard", "postBoard", "putBoard"}

\* What a run has found or made is still there, and is what it takes it for.
RunOK(o) ==
  /\ o.db <= Len(dbs) /\ o.found <= Len(cards) + Len(boards)
  /\ o.db # 0 => o.seen \subseteq dbs[o.db].tables
  /\ Named(o.section, o.ver, o.cards)
  /\ o.pc # "idle" => o.ver # 0
  /\ o.pc \in Early => o.section = 1 /\ o.cards = <<>> /\ o.seen = {}
  /\ o.pc = "waitTable" => o.section # 1 /\ o.cards = <<>>
  /\ o.pc \in {"pollDb", "checkDb", "waitTable", "end"} \cup AtCard \cup AtBoard =>
       o.db # 0
  /\ o.pc \in AtCard => Len(o.cards) < Len(Listed(o.section, o.ver))
  /\ o.pc \in AtBoard => Len(o.cards) = Len(Listed(o.section, o.ver))
  /\ o.pc = "putCard" =>
       /\ o.found \in 1..Len(cards)
       /\ cards[o.found].name = <<o.section, Listed(o.section, o.ver)[Len(o.cards) + 1]>>
  /\ o.pc = "putBoard" =>
       o.found \in 1..Len(boards) /\ boards[o.found].name = o.section

Scalars ==
  /\ code \in 0..MaxCode /\ runs \in 0..MaxRuns /\ setup \in BOOLEAN
  /\ clean \in BOOLEAN /\ torn \subseteq Boards

RunsOK ==
  /\ op \in [Operators -> RunType]
  /\ \A w \in Operators : RunOK(op[w])

IInv == Scalars /\ ServerOK /\ RunsOK /\ (\A q \in late : Legal(q))

-----------------------------------------------------------------------------
(* Dashboards, and the server's growth. *)

\* Dashboards are numbered from one, and every version has cards for each.
LEMMA SectionType ==
  /\ Len(Sections) \in Nat \ {0} /\ Boards = 1..Len(Sections) /\ 1 \in Boards
  /\ \A s \in Boards : s \in Nat /\ Sections[s].awaits \subseteq Tables
  /\ \A s \in Boards, v \in 1..MaxCode :
       Listed(s, v) \in Seq(Nat) /\ Len(Listed(s, v)) \in Nat \ {0}
<1> DEFINE Lists == [1..MaxCode -> Seq(Nat) \ {<<>>}]
<1>1. Sections \in Seq([awaits : SUBSET Tables, cards : Lists]) /\ Sections # <<>>
  BY ConstantsOK DEF ConstantsOK
<1>2. Len(Sections) \in Nat \ {0} /\ DOMAIN Sections = 1..Len(Sections)
  BY <1>1, EmptySeq, LenProperties
<1>3. \A s \in 1..Len(Sections) : Sections[s] \in [awaits : SUBSET Tables, cards : Lists]
  BY <1>1, ElementOfSeq
<1>4. ASSUME NEW s \in Boards, NEW v \in 1..MaxCode
      PROVE  Listed(s, v) \in Seq(Nat) /\ Len(Listed(s, v)) \in Nat \ {0}
  <2>1. Listed(s, v) \in Seq(Nat) /\ Listed(s, v) # <<>>
    BY <1>2, <1>3 DEF Boards, Listed
  <2> QED  BY <2>1, EmptySeq, LenProperties
<1> QED  BY <1>2, <1>3, <1>4 DEF Boards

\* The card at a place of a version's list has a name.
LEMMA NameType ==
  \A s \in Boards, v \in 1..MaxCode : \A i \in 1..Len(Listed(s, v)) :
    Listed(s, v)[i] \in Nat /\ <<s, Listed(s, v)[i]>> \in CardNames
BY SectionType, ElementOfSeq DEF CardNames

\* Metabase as these calls leave it: nothing goes away, and what keeps its
\* place keeps its name.
Grows ==
  /\ Len(dbs) <= Len(dbs') /\ Len(cards) <= Len(cards') /\ Len(boards) <= Len(boards')
  /\ \A d \in 1..Len(dbs) : dbs[d].tables \subseteq dbs'[d].tables
  /\ \A c \in 1..Len(cards) : cards'[c].name = cards[c].name
  /\ \A b \in 1..Len(boards) : boards'[b].name = boards[b].name

Lengths == Len(dbs) \in Nat /\ Len(cards) \in Nat /\ Len(boards) \in Nat

\* The server's lists have lengths.
LEMMA LengthsAreNat == ServerOK => Lengths
BY LenProperties DEF ServerOK, Lengths

\* Growth keeps the cards of a dashboard its cards.
LEMMA GrowthKeepsNames ==
  ASSUME Lengths, Lengths', Grows
  PROVE  \A s \in Boards, mine \in Seq(Nat) :
           /\ \A v \in 0..MaxCode : Named(s, v, mine) => Named(s, v, mine)'
           /\ Whole(s, mine) => Whole(s, mine)'
<1>1. ASSUME NEW s \in Boards, NEW mine \in Seq(Nat), NEW v \in 0..MaxCode,
             Named(s, v, mine)
      PROVE  Named(s, v, mine)'
  <2> SUFFICES ASSUME NEW i \in 1..Len(mine)
               PROVE  /\ mine[i] \in 1..Len(cards')
                      /\ cards'[mine[i]].name = <<s, Listed(s, v)[i]>>
    BY DEF Named
  <2>1. mine[i] \in 1..Len(cards) /\ cards[mine[i]].name = <<s, Listed(s, v)[i]>>
    BY <1>1 DEF Named
  <2>2. mine[i] \in 1..Len(cards')
    BY <2>1 DEF Grows, Lengths
  <2> QED  BY <2>1, <2>2 DEF Grows
<1>2. 1..MaxCode \subseteq 0..MaxCode
  BY ConstantsOK DEF ConstantsOK
<1> QED  BY <1>1, <1>2 DEF Whole

\* A call that is legal stays legal until it is carried out.
LEMMA GrowthKeepsCalls ==
  ASSUME ServerOK, Lengths', Grows, NEW q, Legal(q)
  PROVE  Legal(q)'
<1> USE LengthsAreNat
<1>1. CASE q.call \in {"setup", "postDb"}
  BY <1>1 DEF Legal
<1>2. CASE q.call = "postCard"
  <2>1. q.body \in CardType /\ q.body.db \in 1..Len(dbs)
    BY <1>2 DEF Legal
  <2>2. q.body.db \in 1..Len(dbs')
    BY <2>1 DEF Grows, Lengths
  <2> QED  BY <1>2, <2>1, <2>2 DEF Legal
<1>3. CASE q.call = "putCard"
  <2>1. /\ q.body \in CardType /\ q.body.db \in 1..Len(dbs)
        /\ q.id \in 1..Len(cards) /\ q.body.name = cards[q.id].name
    BY <1>3 DEF Legal
  <2>2. q.body.db \in 1..Len(dbs') /\ q.id \in 1..Len(cards')
    BY <2>1 DEF Grows, Lengths
  <2>3. q.body.name = cards'[q.id].name
    BY <2>1 DEF Grows
  <2> QED  BY <1>3, <2>1, <2>2, <2>3 DEF Legal
<1>4. CASE q.call = "postBoard"
  BY <1>4 DEF Legal
<1>5. CASE q.call = "putBoard"
  <2>1. q.id \in 1..Len(boards) /\ Whole(boards[q.id].name, q.body)
    BY <1>5 DEF Legal
  <2>2. boards[q.id].name \in Boards /\ q.body \in Seq(Nat)
    <3>1. boards[q.id] \in BoardType
      BY <2>1, ElementOfSeq DEF ServerOK
    <3> QED  BY <2>1, <3>1 DEF BoardType, Whole
  <2>3. Whole(boards[q.id].name, q.body)'
    <3> DEFINE s == boards[q.id].name
    <3>1. s \in Boards /\ Whole(s, q.body) /\ boards'[q.id].name = s
      BY <2>1, <2>2 DEF Grows
    <3> HIDE DEF s
    <3> QED  BY <2>2, <3>1, GrowthKeepsNames DEF Whole, Named
  <2>4. q.id \in 1..Len(boards')
    BY <2>1 DEF Grows, Lengths
  <2> QED  BY <1>5, <2>3, <2>4 DEF Legal
<1> QED  BY <1>1, <1>2, <1>3, <1>4, <1>5 DEF Legal

\* A run that does not move is not disturbed.
LEMMA GrowthKeepsRuns ==
  ASSUME ServerOK, Lengths', Grows, NEW o \in RunType, RunOK(o)
  PROVE  RunOK(o)'
<1> USE LengthsAreNat
<1>1. /\ o.pc \in Steps /\ o.ver \in 0..MaxCode /\ o.section \in Boards
      /\ o.db \in Nat /\ o.cards \in Seq(Nat) /\ o.found \in Nat
  BY DEF RunType
<1>2. o.db <= Len(dbs') /\ o.found <= Len(cards') + Len(boards')
  BY <1>1 DEF RunOK, Grows, Lengths
<1>3. Named(o.section, o.ver, o.cards)'
  BY <1>1, GrowthKeepsNames DEF RunOK
<1>4. o.db # 0 => o.seen \subseteq dbs'[o.db].tables
  <2> SUFFICES ASSUME o.db # 0 PROVE o.seen \subseteq dbs'[o.db].tables
    OBVIOUS
  <2>1. o.db \in 1..Len(dbs) /\ o.seen \subseteq dbs[o.db].tables
    BY <1>1 DEF RunOK, Lengths
  <2> QED  BY <2>1 DEF Grows
<1>5. o.pc = "putCard" =>
        /\ o.found \in 1..Len(cards')
        /\ cards'[o.found].name = <<o.section, Listed(o.section, o.ver)[Len(o.cards) + 1]>>
  <2> SUFFICES ASSUME o.pc = "putCard"
               PROVE  /\ o.found \in 1..Len(cards')
                      /\ cards'[o.found].name
                         = <<o.section, Listed(o.section, o.ver)[Len(o.cards) + 1]>>
    OBVIOUS
  <2>1. /\ o.found \in 1..Len(cards)
        /\ cards[o.found].name = <<o.section, Listed(o.section, o.ver)[Len(o.cards) + 1]>>
    BY DEF RunOK
  <2>2. o.found \in 1..Len(cards')
    BY <2>1 DEF Grows, Lengths
  <2> QED  BY <2>1, <2>2 DEF Grows
<1>6. o.pc = "putBoard" =>
        o.found \in 1..Len(boards') /\ boards'[o.found].name = o.section
  <2> SUFFICES ASSUME o.pc = "putBoard"
               PROVE  o.found \in 1..Len(boards') /\ boards'[o.found].name = o.section
    OBVIOUS
  <2>1. o.found \in 1..Len(boards) /\ boards[o.found].name = o.section
    BY DEF RunOK
  <2>2. o.found \in 1..Len(boards')
    BY <2>1 DEF Grows, Lengths
  <2> QED  BY <2>1, <2>2 DEF Grows
<1> QED  BY <1>2, <1>3, <1>4, <1>5, <1>6 DEF RunOK

-----------------------------------------------------------------------------
(* What the server does with a legal call. *)

\* One more at the end of a sequence.
LEMMA OneMore ==
  ASSUME NEW S, NEW s \in Seq(S), NEW e \in S
  PROVE  /\ Append(s, e) \in Seq(S)
         /\ Len(Append(s, e)) = Len(s) + 1
         /\ Append(s, e)[Len(s) + 1] = e
         /\ \A i \in 1..Len(s) : Append(s, e)[i] = s[i]
         /\ Len(s) \in Nat
BY AppendProperties, LenProperties

\* What ServerOK says of one dashboard.
BoardOK(b) == b.cards = <<>> \/ Whole(b.name, b.cards)

\* Dashboards that are right after a call are right in the state after it.
LEMMA GrowthKeepsBoards ==
  ASSUME Lengths, Lengths', Grows,
         \A b \in 1..Len(boards') : boards'[b] \in BoardType /\ BoardOK(boards'[b])
  PROVE  \A b \in 1..Len(boards') : BoardOK(boards[b])'
<1>1. SUFFICES ASSUME NEW b \in 1..Len(boards') PROVE BoardOK(boards[b])'
  OBVIOUS
<1>2. PICK x \in BoardType : x = boards'[b] /\ BoardOK(x)
  OBVIOUS
<1>3. x.name \in Boards /\ x.cards \in Seq(Nat)
  BY DEF BoardType
<1>4. x.cards = <<>> \/ Whole(x.name, x.cards)'
  BY <1>2, <1>3, GrowthKeepsNames DEF BoardOK
<1> QED  BY <1>2, <1>4 DEF BoardOK

\* A call that is legal leaves the server whole, and only grows it.
LEMMA ServeIsSafe ==
  ASSUME ServerOK, NEW q, Legal(q), Serve(q)
  PROVE  ServerOK' /\ Grows
<1>1. /\ dbs \in Seq(DbType) /\ cards \in Seq(CardType) /\ boards \in Seq(BoardType)
      /\ \A c \in 1..Len(cards) : cards[c] \in CardType /\ cards[c].db \in 1..Len(dbs)
      /\ \A b \in 1..Len(boards) : boards[b] \in BoardType /\ BoardOK(boards[b])
      /\ Lengths
  BY ElementOfSeq, LengthsAreNat DEF ServerOK, BoardOK
<1>2. CASE q.call = "setup"
  <2>1. dbs' = dbs /\ cards' = cards /\ boards' = boards
    BY <1>2 DEF Serve
  <2>2. Grows /\ Lengths'
    BY <1>1, <2>1 DEF Grows, Lengths
  <2>3. \A b \in 1..Len(boards') : BoardOK(boards[b])'
    BY <1>1, <2>1, <2>2, GrowthKeepsBoards
  <2> QED  BY <1>1, <2>1, <2>2, <2>3 DEF ServerOK, BoardOK
<1>3. CASE q.call = "postDb"
  <2> DEFINE new == [synced |-> FALSE, tables |-> {}]
  <2>1. dbs' = Append(dbs, new) /\ cards' = cards /\ boards' = boards
    BY <1>3 DEF Serve
  <2>2. new \in DbType
    BY DEF DbType
  <2> HIDE DEF new
  <2>3. /\ dbs' \in Seq(DbType) /\ Len(dbs') = Len(dbs) + 1
        /\ \A d \in 1..Len(dbs) : dbs'[d] = dbs[d]
    BY <1>1, <2>1, <2>2, OneMore
  <2>4. Grows /\ Lengths'
    BY <1>1, <2>1, <2>3 DEF Grows, Lengths
  <2>5. \A b \in 1..Len(boards') : BoardOK(boards[b])'
    BY <1>1, <2>1, <2>4, GrowthKeepsBoards
  <2>6. \A c \in 1..Len(cards') : cards'[c].db \in 1..Len(dbs')
    BY <1>1, <2>1, <2>3 DEF Lengths, CardType
  <2> QED  BY <1>1, <2>1, <2>3, <2>4, <2>5, <2>6 DEF ServerOK, BoardOK
<1>4. CASE q.call = "postCard"
  <2>1. dbs' = dbs /\ cards' = Append(cards, q.body) /\ boards' = boards
    BY <1>4 DEF Serve
  <2>2. q.body \in CardType /\ q.body.db \in 1..Len(dbs)
    BY <1>4 DEF Legal
  <2>3. /\ cards' \in Seq(CardType) /\ Len(cards') = Len(cards) + 1
        /\ cards'[Len(cards) + 1] = q.body
        /\ \A c \in 1..Len(cards) : cards'[c] = cards[c]
    BY <1>1, <2>1, <2>2, OneMore
  <2>4. Grows /\ Lengths'
    BY <1>1, <2>1, <2>3 DEF Grows, Lengths
  <2>5. \A b \in 1..Len(boards') : BoardOK(boards[b])'
    BY <1>1, <2>1, <2>4, GrowthKeepsBoards
  <2>6. \A c \in 1..Len(cards') : cards'[c].db \in 1..Len(dbs')
    <3>1. SUFFICES ASSUME NEW c \in 1..Len(cards') PROVE cards'[c].db \in 1..Len(dbs)
      BY <2>1
    <3>2. c \in 1..Len(cards) \/ c = Len(cards) + 1
      BY <1>1, <2>3 DEF Lengths
    <3> QED  BY <1>1, <2>2, <2>3, <3>2
  <2> QED  BY <1>1, <2>1, <2>3, <2>4, <2>5, <2>6 DEF ServerOK, BoardOK
<1>5. CASE q.call = "putCard"
  <2>1. dbs' = dbs /\ cards' = [cards EXCEPT ![q.id] = q.body] /\ boards' = boards
    BY <1>5 DEF Serve
  <2>2. /\ q.body \in CardType /\ q.body.db \in 1..Len(dbs)
        /\ q.id \in 1..Len(cards) /\ q.body.name = cards[q.id].name
    BY <1>5 DEF Legal
  <2>3. /\ cards' \in Seq(CardType) /\ Len(cards') = Len(cards)
        /\ \A c \in 1..Len(cards) : cards'[c] = IF c = q.id THEN q.body ELSE cards[c]
    BY <1>1, <2>1, <2>2, ExceptSeq
  <2>4. Grows /\ Lengths'
    BY <1>1, <2>1, <2>2, <2>3 DEF Grows, Lengths
  <2>5. \A b \in 1..Len(boards') : BoardOK(boards[b])'
    BY <1>1, <2>1, <2>4, GrowthKeepsBoards
  <2>6. \A c \in 1..Len(cards') : cards'[c].db \in 1..Len(dbs')
    BY <1>1, <2>1, <2>2, <2>3
  <2> QED  BY <1>1, <2>1, <2>3, <2>4, <2>5, <2>6 DEF ServerOK, BoardOK
<1>6. CASE q.call = "postBoard"
  <2> DEFINE new == [name |-> q.id, cards |-> <<>>]
  <2>1. dbs' = dbs /\ cards' = cards /\ boards' = Append(boards, new)
    BY <1>6 DEF Serve
  <2>2. q.id \in Boards
    BY <1>6 DEF Legal
  <2>3. new \in BoardType /\ BoardOK(new)
    BY <2>2, EmptySeq DEF BoardType, BoardOK
  <2> HIDE DEF new
  <2>4. /\ boards' \in Seq(BoardType) /\ Len(boards') = Len(boards) + 1
        /\ boards'[Len(boards) + 1] = new
        /\ \A b \in 1..Len(boards) : boards'[b] = boards[b]
    BY <1>1, <2>1, <2>3, OneMore
  <2>5. Grows /\ Lengths'
    BY <1>1, <2>1, <2>4 DEF Grows, Lengths
  <2>6. \A b \in 1..Len(boards') : BoardOK(boards[b])'
    <3>1. SUFFICES ASSUME NEW b \in 1..Len(boards')
                   PROVE  boards'[b] \in BoardType /\ BoardOK(boards'[b])
      BY <1>1, <2>5, GrowthKeepsBoards
    <3>2. b \in 1..Len(boards) \/ b = Len(boards) + 1
      BY <1>1, <2>4 DEF Lengths
    <3> QED  BY <1>1, <2>3, <2>4, <3>2
  <2> QED  BY <1>1, <2>1, <2>4, <2>5, <2>6 DEF ServerOK, BoardOK
<1>7. CASE q.call = "putBoard"
  <2> DEFINE new == [boards[q.id] EXCEPT !.cards = q.body]
  <2>1. dbs' = dbs /\ cards' = cards /\ boards' = [boards EXCEPT ![q.id] = new]
    BY <1>7 DEF Serve
  <2>2. q.id \in 1..Len(boards) /\ Whole(boards[q.id].name, q.body)
    BY <1>7 DEF Legal
  <2>3. new \in BoardType /\ new.name = boards[q.id].name /\ new.cards = q.body
    BY <1>1, <2>2 DEF BoardType, Whole
  <2>4. BoardOK(new)
    BY <1>1, <2>2, <2>3 DEF BoardOK
  <2> HIDE DEF new
  <2>5. /\ boards' \in Seq(BoardType) /\ Len(boards') = Len(boards)
        /\ \A b \in 1..Len(boards) : boards'[b] = IF b = q.id THEN new ELSE boards[b]
    BY <1>1, <2>1, <2>2, <2>3, ExceptSeq
  <2>6. Grows /\ Lengths'
    BY <1>1, <2>1, <2>3, <2>5 DEF Grows, Lengths
  <2>7. \A b \in 1..Len(boards') : BoardOK(boards[b])'
    <3>1. \A b \in 1..Len(boards') : boards'[b] \in BoardType /\ BoardOK(boards'[b])
      BY <1>1, <2>3, <2>4, <2>5
    <3> QED  BY <1>1, <2>6, <3>1, GrowthKeepsBoards
  <2> QED  BY <1>1, <2>1, <2>5, <2>6, <2>7 DEF ServerOK, BoardOK
<1> QED  BY <1>2, <1>3, <1>4, <1>5, <1>6, <1>7 DEF Legal

\* The call a run makes at a step that writes is legal.
LEMMA CallsAreLegal ==
  ASSUME IInv, NEW w \in Operators, op[w].pc \in Writes
  PROVE  Legal(Call(w))
<1>1. op[w] \in RunType /\ RunOK(op[w])
  BY DEF IInv, RunsOK
<1>2. /\ op[w].ver \in 0..MaxCode /\ op[w].section \in Boards
      /\ op[w].db \in Nat /\ op[w].cards \in Seq(Nat) /\ op[w].found \in Nat
      /\ Len(op[w].cards) \in Nat
  BY <1>1, LenProperties DEF RunType
<1>2a. op[w].ver \in 1..MaxCode
  <2>1. op[w].ver # 0
    BY <1>1 DEF RunOK, Writes
  <2>2. MaxCode \in Nat
    BY ConstantsOK DEF ConstantsOK
  <2>3. \A v \in 0..MaxCode : v # 0 => v \in 1..MaxCode
    BY <2>2
  <2> QED  BY <1>2, <2>1, <2>3
<1>3. op[w].pc \in AtCard => Body(w) \in CardType /\ Body(w).db \in 1..Len(dbs)
  <2> SUFFICES ASSUME op[w].pc \in AtCard
               PROVE  Body(w) \in CardType /\ Body(w).db \in 1..Len(dbs)
    OBVIOUS
  <2>1. op[w].db # 0 /\ op[w].db <= Len(dbs) /\ Len(dbs) \in Nat
    BY <1>1, LengthsAreNat DEF RunOK, AtCard, Lengths, IInv
  <2>2. op[w].ver \in 1..MaxCode /\ op[w].db \in 1..Len(dbs)
    BY <1>2, <1>2a, <2>1
  <2>3. Len(op[w].cards) + 1 \in 1..Len(List(w))
    BY <1>1, <1>2, <2>2, SectionType DEF RunOK, List
  <2>4. ThisCard(w) \in CardNames
    BY <1>2, <2>2, <2>3, NameType DEF ThisCard, List
  <2> QED  BY <1>2, <2>2, <2>4 DEF Body, CardType
<1>4. CASE op[w].pc \in {"setup", "postDb"}
  BY <1>4 DEF Call, Request, Legal
<1>5. CASE op[w].pc = "postCard"
  BY <1>3, <1>5 DEF Call, Request, Legal, AtCard
<1>6. CASE op[w].pc = "putCard"
  BY <1>1, <1>3, <1>6 DEF Call, Request, Legal, AtCard, RunOK, Body, ThisCard, List
<1>7. CASE op[w].pc = "postBoard"
  BY <1>1, <1>2, <1>7 DEF Call, Request, Legal, AtBoard, RunOK
<1>8. CASE op[w].pc = "putBoard"
  <2>2. Whole(op[w].section, op[w].cards)
    BY <1>1, <1>2, <1>2a, <1>8 DEF AtBoard, RunOK, Whole
  <2> QED  BY <1>1, <1>8, <2>2 DEF Call, Request, Legal, RunOK
<1> QED  BY <1>4, <1>5, <1>6, <1>7, <1>8 DEF Writes

-----------------------------------------------------------------------------
(* The invariant is kept by every step. *)

\* Enough for a step that moves at most one run.
LEMMA OneRunMoves ==
  ASSUME IInv, NEW w \in Operators, Scalars', ServerOK', Grows,
         op' \in [Operators -> RunType], RunOK(op[w])',
         \A v \in Operators : v # w => op'[v] = op[v],
         \A q \in late' : q \in late \/ Legal(q)
  PROVE  IInv'
<1>1. ServerOK /\ Lengths /\ Lengths'
  BY LenProperties DEF IInv, ServerOK, Lengths
<1>2. \A v \in Operators : RunOK(op[v])'
  <2>1. SUFFICES ASSUME NEW v \in Operators, v # w PROVE RunOK(op[v])'
    OBVIOUS
  <2>2. PICK o \in RunType : o = op[v] /\ o = op'[v] /\ RunOK(o)
    BY <2>1 DEF IInv, RunsOK
  <2>3. RunOK(o)'
    BY <1>1, <2>2, GrowthKeepsRuns
  <2> QED  BY <2>2, <2>3 DEF RunOK
<1>3. \A q \in late' : Legal(q)'
  BY <1>1, GrowthKeepsCalls DEF IInv
<1>4. RunsOK'
  BY <1>2 DEF RunsOK
<1> QED  BY <1>3, <1>4 DEF IInv

\* A run that only looks, or only stops.
LEMMA RunLooks ==
  ASSUME IInv, NEW w \in Operators, NEW o \in RunType, RunOK(o),
         op' = [op EXCEPT ![w] = o], Scalars', UNCHANGED server,
         \A q \in late' : q \in late \/ Legal(q)
  PROVE  IInv'
<1>1. ServerOK /\ Lengths
  BY LengthsAreNat DEF IInv
<1>2. Grows /\ Lengths'
  BY <1>1 DEF Grows, server, Lengths
<1>3. ServerOK'
  <2>1. \A b \in 1..Len(boards') : boards'[b] \in BoardType /\ BoardOK(boards'[b])
    BY <1>1, ElementOfSeq DEF server, ServerOK, BoardOK
  <2>2. \A b \in 1..Len(boards') : BoardOK(boards[b])'
    BY <1>1, <1>2, <2>1, GrowthKeepsBoards
  <2> QED  BY <1>1, <2>2 DEF server, ServerOK, BoardOK
<1>4. /\ op' \in [Operators -> RunType] /\ op'[w] = o
      /\ \A v \in Operators : v # w => op'[v] = op[v]
  BY DEF IInv, RunsOK
<1>5. RunOK(op[w])'
  <2>1. PICK x \in RunType : x = o /\ RunOK(x)
    OBVIOUS
  <2>2. RunOK(x)' /\ op'[w] = x
    BY <1>1, <1>2, <1>4, <2>1, GrowthKeepsRuns
  <2> QED  BY <2>2 DEF RunOK
<1> QED  BY <1>2, <1>3, <1>4, <1>5, OneRunMoves

\* A run that makes a call, and goes on with what it knew or with more.
LEMMA CallIsServed ==
  ASSUME IInv, NEW w \in Operators, op[w].pc \in Writes, Serve(Call(w))
  PROVE  ServerOK' /\ Grows /\ Lengths'
<1>1. Legal(Call(w)) /\ ServerOK
  BY CallsAreLegal DEF IInv
<1>2. ServerOK' /\ Grows
  <2> HIDE DEF Call
  <2> QED  BY <1>1, ServeIsSafe
<1> QED  BY <1>2, LenProperties DEF ServerOK, Lengths

\* A run that has its call carried out keeps the invariant, if what it goes on as fits.
LEMMA RunWrites ==
  ASSUME IInv, NEW w \in Operators, op[w].pc \in Writes, Serve(Call(w)),
         Scalars', NEW o \in RunType,
         op' = [op EXCEPT ![w] = o], RunOK(o) \/ RunOK(op[w])', late' \subseteq late
  PROVE  IInv'
<1>1. ServerOK' /\ Grows /\ Lengths' /\ ServerOK /\ Lengths
  BY CallIsServed, LengthsAreNat DEF IInv
<1>2. /\ op' \in [Operators -> RunType] /\ op'[w] = o
      /\ \A v \in Operators : v # w => op'[v] = op[v]
  BY DEF IInv, RunsOK
<1>3. RunOK(op[w])'
  <2>1. PICK x \in RunType : x = o /\ (RunOK(x) \/ RunOK(op[w])')
    OBVIOUS
  <2>2. op'[w] = x /\ (RunOK(x) => RunOK(x)')
    BY <1>1, <1>2, <2>1, GrowthKeepsRuns
  <2> QED  BY <2>1, <2>2 DEF RunOK
<1> QED  BY <1>1, <1>2, <1>3, OneRunMoves

\* A run that is over.
LEMMA IdleIsOK == Idle \in RunType /\ (IInv => RunOK(Idle))
<1>1. Idle \in RunType
  <2>1. 1 \in Boards /\ 0 \in 0..MaxCode /\ 0 \in 0..Polls
    BY SectionType, ConstantsOK DEF ConstantsOK
  <2> QED  BY <2>1, EmptySeq DEF Idle, RunType, Steps
<1>2. IInv => RunOK(Idle)
  BY LengthsAreNat, EmptySeq DEF IInv, RunOK, Idle, Named, Early, AtCard, AtBoard, Lengths
<1> QED  BY <1>1, <1>2

\* What GoOn leaves in a run.
LEMMA GoingOn ==
  ASSUME NEW o \in RunType, NEW step \in Steps
  PROVE  /\ [o EXCEPT !.pc = step] \in RunType
         /\ [o EXCEPT !.pc = step].pc = step
         /\ [o EXCEPT !.pc = step].ver = o.ver
         /\ [o EXCEPT !.pc = step].section = o.section
         /\ [o EXCEPT !.pc = step].polls = o.polls
         /\ [o EXCEPT !.pc = step].db = o.db
         /\ [o EXCEPT !.pc = step].seen = o.seen
         /\ [o EXCEPT !.pc = step].cards = o.cards
         /\ [o EXCEPT !.pc = step].found = o.found
BY DEF RunType

\* A run with one of its variables changed.
LEMMA Polling ==
  ASSUME NEW o \in RunType, NEW x \in 0..Polls
  PROVE  /\ [o EXCEPT !.polls = x] \in RunType
         /\ [o EXCEPT !.polls = x].pc = o.pc
         /\ [o EXCEPT !.polls = x].ver = o.ver
         /\ [o EXCEPT !.polls = x].section = o.section
         /\ [o EXCEPT !.polls = x].polls = x
         /\ [o EXCEPT !.polls = x].db = o.db
         /\ [o EXCEPT !.polls = x].seen = o.seen
         /\ [o EXCEPT !.polls = x].cards = o.cards
         /\ [o EXCEPT !.polls = x].found = o.found
BY DEF RunType

\* A run that takes a connection changes nothing else of itself.
LEMMA Connecting ==
  ASSUME NEW o \in RunType, NEW x \in Nat
  PROVE  /\ [o EXCEPT !.db = x] \in RunType
         /\ [o EXCEPT !.db = x].pc = o.pc
         /\ [o EXCEPT !.db = x].ver = o.ver
         /\ [o EXCEPT !.db = x].section = o.section
         /\ [o EXCEPT !.db = x].polls = o.polls
         /\ [o EXCEPT !.db = x].db = x
         /\ [o EXCEPT !.db = x].seen = o.seen
         /\ [o EXCEPT !.db = x].cards = o.cards
         /\ [o EXCEPT !.db = x].found = o.found
BY DEF RunType

\* Nor does one that looks at the tables of its connection.
LEMMA Seeing ==
  ASSUME NEW o \in RunType, NEW x \in SUBSET Tables
  PROVE  /\ [o EXCEPT !.seen = x] \in RunType
         /\ [o EXCEPT !.seen = x].pc = o.pc
         /\ [o EXCEPT !.seen = x].ver = o.ver
         /\ [o EXCEPT !.seen = x].section = o.section
         /\ [o EXCEPT !.seen = x].polls = o.polls
         /\ [o EXCEPT !.seen = x].db = o.db
         /\ [o EXCEPT !.seen = x].seen = x
         /\ [o EXCEPT !.seen = x].cards = o.cards
         /\ [o EXCEPT !.seen = x].found = o.found
BY DEF RunType

\* Nor does one that remembers what it found.
LEMMA Finding ==
  ASSUME NEW o \in RunType, NEW x \in Nat
  PROVE  /\ [o EXCEPT !.found = x] \in RunType
         /\ [o EXCEPT !.found = x].pc = o.pc
         /\ [o EXCEPT !.found = x].ver = o.ver
         /\ [o EXCEPT !.found = x].section = o.section
         /\ [o EXCEPT !.found = x].polls = o.polls
         /\ [o EXCEPT !.found = x].db = o.db
         /\ [o EXCEPT !.found = x].seen = o.seen
         /\ [o EXCEPT !.found = x].cards = o.cards
         /\ [o EXCEPT !.found = x].found = x
BY DEF RunType

\* Nor does one that adds a card.
LEMMA Collecting ==
  ASSUME NEW o \in RunType, NEW x \in Seq(Nat)
  PROVE  /\ [o EXCEPT !.cards = x] \in RunType
         /\ [o EXCEPT !.cards = x].pc = o.pc
         /\ [o EXCEPT !.cards = x].ver = o.ver
         /\ [o EXCEPT !.cards = x].section = o.section
         /\ [o EXCEPT !.cards = x].polls = o.polls
         /\ [o EXCEPT !.cards = x].db = o.db
         /\ [o EXCEPT !.cards = x].seen = o.seen
         /\ [o EXCEPT !.cards = x].cards = x
         /\ [o EXCEPT !.cards = x].found = o.found
BY DEF RunType

\* What RunOK asks of a run that goes on.
Fits(o, step) ==
  /\ o \in RunType /\ step \in Steps
  /\ RunOK([o EXCEPT !.pc = step])

\* A run that only looks keeps the invariant, if what it goes on as fits.
LEMMA RunGoesOn ==
  ASSUME IInv, NEW w \in Operators, NEW o, NEW step, Fits(o, step), GoOn(w, o, step),
         Scalars', UNCHANGED <<server, late>>
  PROVE  IInv'
<1> DEFINE next == [o EXCEPT !.pc = step]
<1>1. next \in RunType /\ RunOK(next) /\ op' = [op EXCEPT ![w] = next]
  BY GoingOn DEF Fits, GoOn
<1> HIDE DEF next
<1> QED  BY <1>1, RunLooks

\* So does a run that stops, whatever legal call it leaves behind.
LEMMA RunStops ==
  ASSUME IInv, NEW w \in Operators, Over(w), Scalars', UNCHANGED server, \A q \in late' : q \in late \/ Legal(q)
  PROVE  IInv'
BY IdleIsOK, RunLooks DEF Over

\* What a run is, in the invariant.
LEMMA RunFacts ==
  ASSUME IInv, NEW w \in Operators
  PROVE  /\ op[w] \in RunType /\ RunOK(op[w]) /\ ServerOK /\ Lengths /\ Scalars
         /\ op[w].pc \in Steps /\ op[w].ver \in 0..MaxCode /\ op[w].section \in Boards
         /\ op[w].polls \in 0..Polls /\ op[w].db \in Nat /\ op[w].found \in Nat
         /\ op[w].cards \in Seq(Nat) /\ Len(op[w].cards) \in Nat
         /\ op[w].seen \in SUBSET Tables
<1>1. op[w] \in RunType /\ RunOK(op[w]) /\ ServerOK /\ Scalars
  BY DEF IInv, RunsOK
<1>2. op[w].cards \in Seq(Nat)
  BY <1>1 DEF RunType
<1> QED  BY <1>1, <1>2, LenProperties, LengthsAreNat DEF RunType

\* A run that has begun is of a version of the script.
LEMMA RunVersion ==
  ASSUME IInv, NEW w \in Operators, op[w].pc # "idle"
  PROVE  op[w].ver \in 1..MaxCode /\ op[w].ver # 0
<1>1. op[w].ver \in 0..MaxCode /\ RunOK(op[w])
  BY RunFacts
<1>2. op[w].ver # 0
  BY <1>1 DEF RunOK
<1>3. MaxCode \in Nat
  BY ConstantsOK DEF ConstantsOK
<1>4. \A v \in 0..MaxCode : v # 0 => v \in 1..MaxCode
  BY <1>3
<1> QED  BY <1>1, <1>2, <1>4

\* The values a run holds now, to speak of them later.
LEMMA RunValues ==
  ASSUME IInv, NEW w \in Operators
  PROVE  \E v \in Nat, k \in Boards, mine \in Seq(Nat), seen \in SUBSET Tables :
           v = op[w].ver /\ k = op[w].section /\ mine = op[w].cards /\ seen = op[w].seen
<1>1. /\ op[w].ver \in 0..MaxCode /\ op[w].section \in Boards
      /\ op[w].cards \in Seq(Nat) /\ op[w].seen \in SUBSET Tables
  BY RunFacts
<1>2. MaxCode \in Nat
  BY ConstantsOK DEF ConstantsOK
<1>3. \A v \in 0..MaxCode : v \in Nat
  BY <1>2
<1>4. PICK v \in Nat : v = op[w].ver
  BY <1>1, <1>3
<1>5. PICK k \in Boards : k = op[w].section
  BY <1>1
<1>6. PICK mine \in Seq(Nat) : mine = op[w].cards
  BY <1>1
<1>7. PICK seen \in SUBSET Tables : seen = op[w].seen
  BY <1>1
<1> QED  BY <1>4, <1>5, <1>6, <1>7

\* A run that looks once more, or for the first time.
LEMMA RunPolls ==
  ASSUME IInv, NEW w \in Operators, NEW n \in 0..Polls, NEW step \in Steps,
         RunOK([op[w] EXCEPT !.pc = step]), GoOn(w, [op[w] EXCEPT !.polls = n], step),
         Scalars', UNCHANGED <<server, late>>
  PROVE  IInv'
<1> DEFINE o == [op[w] EXCEPT !.polls = n]
<1>1. op[w] \in RunType
  BY RunFacts
<1>2. /\ o \in RunType /\ o.ver = op[w].ver /\ o.section = op[w].section
      /\ o.db = op[w].db /\ o.cards = op[w].cards /\ o.found = op[w].found
      /\ o.seen = op[w].seen
  BY <1>1, Polling
<1> HIDE DEF o
<1>3. RunOK([o EXCEPT !.pc = step])
  <2> DEFINE a == [op[w] EXCEPT !.pc = step]
             b == [o EXCEPT !.pc = step]
  <2>1. /\ a.pc = step /\ a.ver = op[w].ver /\ a.section = op[w].section
        /\ a.db = op[w].db /\ a.cards = op[w].cards /\ a.found = op[w].found
        /\ a.seen = op[w].seen
    BY <1>1, GoingOn
  <2>2. /\ b.pc = step /\ b.ver = o.ver /\ b.section = o.section
        /\ b.db = o.db /\ b.cards = o.cards /\ b.found = o.found /\ b.seen = o.seen
    BY <1>2, GoingOn
  <2>3. RunOK(a)
    OBVIOUS
  <2> HIDE DEF a, b
  <2>4. RunOK(b)
    BY <1>2, <2>1, <2>2, <2>3 DEF RunOK
  <2> QED  BY <2>4 DEF b
<1>4. Fits(o, step)
  BY <1>2, <1>3 DEF Fits
<1> QED  BY <1>4, RunGoesOn DEF o

\* What RunOK is when only the step is another one.
LEMMA RunAtStep ==
  ASSUME IInv, NEW w \in Operators, NEW step \in Steps,
         op[w].pc # "idle" \/ op[w].ver # 0,
         step \in Early => op[w].section = 1 /\ op[w].cards = <<>> /\ op[w].seen = {},
         step \in {"pollDb", "checkDb", "waitTable", "end"} \cup AtCard \cup AtBoard =>
           op[w].db # 0,
         step = "waitTable" => op[w].section # 1 /\ op[w].cards = <<>>,
         step \in AtCard => Len(op[w].cards) < Len(List(w)),
         step \in AtBoard => Len(op[w].cards) = Len(List(w)),
         step \notin {"putCard", "putBoard"}
  PROVE  RunOK([op[w] EXCEPT !.pc = step]) /\ Fits(op[w], step)
<1>1. op[w] \in RunType /\ RunOK(op[w])
  BY RunFacts
<1>2. RunOK([op[w] EXCEPT !.pc = step])
  BY <1>1, GoingOn DEF RunOK, List
<1> QED  BY <1>1, <1>2 DEF Fits

\* An open question of a run stays open while it only looks.
LEMMA LooksAreLocal ==
  ASSUME IInv, Local
  PROVE  Scalars' /\ UNCHANGED <<server, late>>
BY DEF Local, IInv, Scalars, server

\* The wait for the server keeps the invariant.
LEMMA HealthKeeps == ASSUME IInv, NEW w \in Operators, WaitHealthy(w) PROVE IInv'
<1>1. Local /\ op[w].pc = "health"
  BY DEF WaitHealthy, At
<1>2. /\ op[w].section = 1 /\ op[w].cards = <<>> /\ op[w].seen = {} /\ op[w].polls \in 0..Polls
      /\ Polls \in Nat
  BY <1>1, RunFacts, ConstantsOK DEF ConstantsOK, RunOK, Early
<1>3. ASSUME NEW step \in {"login", "health"}
      PROVE  step \in Steps /\ RunOK([op[w] EXCEPT !.pc = step])
  <2>1. step \in Steps
    BY DEF Steps
  <2> QED  BY <1>1, <1>2, <2>1, RunAtStep DEF AtCard, AtBoard
<1>4. CASE GoOn(w, [op[w] EXCEPT !.polls = 0], "login")
  BY <1>1, <1>2, <1>3, <1>4, LooksAreLocal, RunPolls
<1>5. CASE /\ op[w].polls < Polls
           /\ GoOn(w, [op[w] EXCEPT !.polls = @ + 1], "health")
  <2>1. op[w].polls + 1 \in 0..Polls
    BY <1>2, <1>5
  <2> QED  BY <1>1, <1>3, <1>5, <2>1, LooksAreLocal, RunPolls
<1>6. CASE Over(w)
  BY <1>1, <1>6, LooksAreLocal, RunStops
<1> QED  BY <1>4, <1>5, <1>6 DEF WaitHealthy

\* So does the login.
LEMMA LoginKeeps == ASSUME IInv, NEW w \in Operators, Login(w) PROVE IInv'
<1>1. Local /\ op[w].pc = "login"
  BY DEF Login, At
<1>2. op[w].section = 1 /\ op[w].cards = <<>> /\ op[w].seen = {}
  BY <1>1, RunFacts DEF RunOK, Early
<1>3. ASSUME NEW step \in {"findDb", "setup"} PROVE Fits(op[w], step)
  <2>1. step \in Steps
    BY DEF Steps
  <2> QED  BY <1>1, <1>2, <2>1, RunAtStep DEF AtCard, AtBoard
<1> QED  BY <1>1, <1>3, LooksAreLocal, RunGoesOn DEF Login

\* So does the login after the setup.
LEMMA LoginAgainKeeps == ASSUME IInv, NEW w \in Operators, LoginAgain(w) PROVE IInv'
<1>1. Local /\ op[w].pc = "again"
  BY DEF LoginAgain, At
<1>2. op[w].section = 1 /\ op[w].cards = <<>> /\ op[w].seen = {} /\ "findDb" \in Steps
  BY <1>1, RunFacts DEF RunOK, Early, Steps
<1>3. Fits(op[w], "findDb")
  BY <1>1, <1>2, RunAtStep DEF AtCard, AtBoard
<1>4. GoOn(w, op[w], "findDb") \/ Over(w)
  BY DEF LoginAgain
<1> QED  BY <1>1, <1>3, <1>4, LooksAreLocal, RunGoesOn, RunStops

\* So does the poll of the synchronisation.
LEMMA PollDbKeeps == ASSUME IInv, NEW w \in Operators, PollDb(w) PROVE IInv'
<1>1. Local /\ op[w].pc = "pollDb"
  BY DEF PollDb, At
<1>2. /\ op[w].section = 1 /\ op[w].cards = <<>> /\ op[w].seen = {} /\ op[w].db # 0
      /\ op[w].polls \in 0..Polls /\ Polls \in Nat
  BY <1>1, RunFacts, ConstantsOK DEF ConstantsOK, RunOK, Early
<1>3. ASSUME NEW step \in {"checkDb", "pollDb"}
      PROVE  step \in Steps /\ RunOK([op[w] EXCEPT !.pc = step])
  <2>1. step \in Steps
    BY DEF Steps
  <2> QED  BY <1>1, <1>2, <2>1, RunAtStep DEF AtCard, AtBoard
<1>4. CASE GoOn(w, [op[w] EXCEPT !.polls = 0], "checkDb")
  BY <1>1, <1>2, <1>3, <1>4, LooksAreLocal, RunPolls
<1>5. CASE /\ op[w].polls # Polls
           /\ GoOn(w, [op[w] EXCEPT !.polls = @ + 1], "pollDb")
  <2>1. op[w].polls + 1 \in 0..Polls
    BY <1>2, <1>5
  <2> QED  BY <1>1, <1>3, <1>5, <2>1, LooksAreLocal, RunPolls
<1> QED  BY <1>4, <1>5 DEF PollDb

\* A run that is at its first card, on the connection it takes.
LEMMA FirstCard ==
  ASSUME IInv, NEW w \in Operators, NEW o \in RunType,
         op[w].pc # "idle", o.ver = op[w].ver, o.section = 1, o.cards = <<>>,
         o.found = op[w].found, o.db \in 1..Len(dbs), o.seen \subseteq dbs[o.db].tables
  PROVE  Fits(o, "findCard")
<1> DEFINE next == [o EXCEPT !.pc = "findCard"]
<1>1. "findCard" \in Steps /\ "findCard" \notin Early \cup AtBoard
  BY DEF Steps, Early, AtBoard
<1>2. /\ next.pc = "findCard" /\ next.ver = o.ver /\ next.section = 1
      /\ next.db = o.db /\ next.cards = <<>> /\ next.found = op[w].found
      /\ next.seen = o.seen
  BY <1>1, GoingOn
<1> HIDE DEF next
<1>3. o.ver \in 1..MaxCode /\ o.ver # 0 /\ o.db # 0 /\ o.db <= Len(dbs)
  <2>1. op[w].ver \in 1..MaxCode /\ op[w].ver # 0
    BY RunVersion
  <2>2. Len(dbs) \in Nat
    BY RunFacts DEF Lengths
  <2> QED  BY <2>1, <2>2
<1>4. Len(next.cards) = 0 /\ 0 < Len(Listed(1, o.ver)) /\ Named(1, o.ver, next.cards)
  BY <1>2, <1>3, EmptySeq, SectionType DEF Named
<1>5. op[w].found <= Len(cards) + Len(boards)
  BY RunFacts DEF RunOK
<1>6. RunOK(next)
  BY <1>1, <1>2, <1>3, <1>4, <1>5 DEF RunOK
<1> QED  BY <1>1, <1>6 DEF Fits, next

\* So does the check for missing marts.
LEMMA CheckDbKeeps == ASSUME IInv, NEW w \in Operators, CheckDb(w) PROVE IInv'
<1>1. Local /\ op[w].pc = "checkDb"
  BY DEF CheckDb, At
<1>2. /\ op[w].section = 1 /\ op[w].cards = <<>> /\ op[w].db # 0 /\ op[w].ver # 0
      /\ op[w].db <= Len(dbs) /\ op[w] \in RunType
  BY <1>1, RunFacts DEF RunOK, Early
<1>3. CASE GoOn(w, [op[w] EXCEPT !.seen = dbs[op[w].db].tables], "findCard")
  <2>1. op[w].db \in 1..Len(dbs)
    BY <1>2, RunFacts DEF Lengths
  <2>2. PICK seen \in SUBSET Tables : seen = dbs[op[w].db].tables
    <3>1. dbs[op[w].db] \in DbType
      BY <2>1, RunFacts, ElementOfSeq DEF ServerOK
    <3> QED  BY <3>1 DEF DbType
  <2> DEFINE o == [op[w] EXCEPT !.seen = seen]
  <2>3. /\ o \in RunType /\ o.ver = op[w].ver /\ o.section = op[w].section
        /\ o.db = op[w].db /\ o.cards = op[w].cards /\ o.found = op[w].found
        /\ o.seen = seen
    BY <1>2, Seeing
  <2>4. GoOn(w, o, "findCard")
    BY <1>3, <2>2
  <2> HIDE DEF o
  <2>5. Fits(o, "findCard")
    BY <1>1, <1>2, <2>1, <2>2, <2>3, FirstCard
  <2> QED  BY <1>1, <2>4, <2>5, LooksAreLocal, RunGoesOn
<1>4. CASE Over(w)
  BY <1>1, <1>4, LooksAreLocal, RunStops
<1> QED  BY <1>3, <1>4 DEF CheckDb

\* The next dashboard, or the end.
LEMMA SectionDone ==
  ASSUME IInv, NEW w \in Operators, NextSection(w),
         op[w].pc \in {"waitTable", "findBoard", "putBoard"}
  PROVE  \E o \in RunType : op' = [op EXCEPT ![w] = o] /\ RunOK(o)
<1>1. /\ op[w].db # 0 /\ op[w].ver # 0 /\ op[w] \in RunType
      /\ op[w].section \in 1..Len(Sections) /\ Len(Sections) \in Nat
      /\ op[w].db \in Nat /\ op[w].db <= Len(dbs) /\ op[w].ver \in 0..MaxCode
      /\ Lengths /\ op[w].seen \in SUBSET Tables /\ op[w].seen \subseteq dbs[op[w].db].tables
  BY RunFacts, SectionType DEF RunOK, AtBoard
<1>2. CASE GoOn(w, op[w], "end")
  <2>1. "end" \in Steps /\ "end" \notin Early \cup AtCard \cup AtBoard
    BY DEF Steps, Early, AtCard, AtBoard
  <2>2. RunOK([op[w] EXCEPT !.pc = "end"])
    BY <1>1, <2>1, RunAtStep
  <2>3. [op[w] EXCEPT !.pc = "end"] \in RunType
    BY <1>1, <2>1, GoingOn
  <2> QED  BY <1>2, <2>2, <2>3 DEF GoOn
<1>3. CASE /\ op[w].section # Len(Sections)
           /\ GoOn(w, [Idle EXCEPT !.ver = op[w].ver, !.db = op[w].db, !.seen = op[w].seen,
                                   !.section = op[w].section + 1], "waitTable")
  <2>1. /\ op[w].section + 1 \in Boards /\ op[w].section + 1 # 1
        /\ "waitTable" \in Steps /\ "waitTable" \notin Early \cup AtCard \cup AtBoard
    BY <1>1, <1>3, SectionType DEF Steps, Early, AtCard, AtBoard
  <2>0. PICK r \in RunType, v \in 0..MaxCode, d \in Nat, s \in Boards,
             seen \in SUBSET Tables :
          /\ r = Idle /\ v = op[w].ver /\ d = op[w].db /\ s = op[w].section + 1
          /\ seen = op[w].seen
    BY <1>1, <2>1, IdleIsOK
  <2> DEFINE o    == [r EXCEPT !.ver = v, !.db = d, !.seen = seen, !.section = s]
             next == [o EXCEPT !.pc = "waitTable"]
  <2>2. op' = [op EXCEPT ![w] = next]
    BY <1>3, <2>0 DEF GoOn
  <2>3. /\ o \in RunType /\ o.ver = v /\ o.section = s
        /\ o.db = d /\ o.cards = r.cards /\ o.found = r.found /\ o.seen = seen
    BY ONLY <2>0 DEF RunType
  <2> HIDE DEF o
  <2>4. /\ next \in RunType /\ next.pc = "waitTable" /\ next.ver = o.ver
        /\ next.section = o.section /\ next.db = o.db /\ next.cards = o.cards
        /\ next.found = o.found /\ next.seen = o.seen
    BY <2>1, <2>3, GoingOn
  <2> HIDE DEF next
  <2>5. next.cards = <<>> /\ next.found = 0
    BY <2>0, <2>3, <2>4 DEF Idle
  <2>6. Named(next.section, next.ver, next.cards)
    BY <2>5, EmptySeq DEF Named
  <2>7. next.db <= Len(dbs) /\ next.found <= Len(cards) + Len(boards)
    BY <1>1, <2>0, <2>3, <2>4, <2>5 DEF Lengths
  <2>8. RunOK(next)
    BY <1>1, <2>0, <2>1, <2>3, <2>4, <2>5, <2>6, <2>7 DEF RunOK
  <2> QED  BY <2>2, <2>4, <2>8
<1> QED  BY <1>2, <1>3 DEF NextSection

\* So does the wait for a dashboard's table.
LEMMA WaitTableKeeps == ASSUME IInv, NEW w \in Operators, WaitTable(w) PROVE IInv'
<1>1. Local /\ op[w].pc = "waitTable"
  BY DEF WaitTable, At
<1>2. /\ op[w].section # 1 /\ op[w].cards = <<>> /\ op[w].db # 0
      /\ op[w].db <= Len(dbs) /\ op[w].section \in Boards
      /\ op[w].polls \in 0..Polls /\ Polls \in Nat
  BY <1>1, RunFacts, ConstantsOK DEF ConstantsOK, RunOK
<1>3. CASE GoOn(w, op[w], "findCard")
  <2>1. op[w].ver \in 1..MaxCode
    BY <1>1, RunVersion
  <2>2. Len(op[w].cards) < Len(List(w))
    BY <1>2, <2>1, EmptySeq, SectionType DEF List
  <2>3. "findCard" \in Steps
    BY DEF Steps
  <2>4. Fits(op[w], "findCard")
    BY <1>1, <1>2, <2>2, <2>3, RunAtStep DEF AtCard, AtBoard, Early
  <2> QED  BY <1>1, <1>3, <2>4, LooksAreLocal, RunGoesOn
<1>4. CASE /\ op[w].polls < Polls
           /\ GoOn(w, [op[w] EXCEPT !.polls = @ + 1], "waitTable")
  <2>1. op[w].polls + 1 \in 0..Polls /\ "waitTable" \in Steps
    BY <1>2, <1>4 DEF Steps
  <2>2. RunOK([op[w] EXCEPT !.pc = "waitTable"])
    BY <1>1, <1>2, <2>1, RunAtStep DEF AtCard, AtBoard, Early
  <2> QED  BY <1>1, <1>4, <2>1, <2>2, LooksAreLocal, RunPolls
<1>5. CASE NextSection(w)
  BY <1>1, <1>5, SectionDone, LooksAreLocal, RunLooks
<1> QED  BY <1>3, <1>4, <1>5 DEF WaitTable

\* So does the look-up of a dashboard.
LEMMA FindBoardKeeps == ASSUME IInv, NEW w \in Operators, FindBoard(w) PROVE IInv'
<1>1. Local /\ op[w].pc = "findBoard"
  BY DEF FindBoard, At
<1>2. CASE NextSection(w)
  BY <1>1, <1>2, SectionDone, LooksAreLocal, RunLooks
<1>3. CASE GoOn(w, op[w], "postBoard")
  <2>1. op[w].db # 0 /\ "postBoard" \in Steps /\ Len(op[w].cards) = Len(List(w))
    BY <1>1, RunFacts DEF RunOK, AtBoard, Steps, List
  <2>2. Fits(op[w], "postBoard")
    BY <1>1, <2>1, RunAtStep DEF AtCard, AtBoard, Early
  <2> QED  BY <1>1, <1>3, <2>2, LooksAreLocal, RunGoesOn
<1> QED  BY <1>2, <1>3 DEF FindBoard

\* So does the look-up of a card.
LEMMA FindCardKeeps == ASSUME IInv, NEW w \in Operators, FindCard(w) PROVE IInv'
<1>1. Local /\ op[w].pc = "findCard"
  BY DEF FindCard, At
<1>2. /\ op[w].db # 0 /\ Len(op[w].cards) < Len(List(w))
      /\ op[w] \in RunType /\ RunOK(op[w]) /\ Lengths
  BY <1>1, RunFacts DEF RunOK, AtCard, List
<1>3. ASSUME NEW c \in DOMAIN cards, cards[c].name = ThisCard(w),
             GoOn(w, [op[w] EXCEPT !.found = c], "putCard")
      PROVE  IInv'
  <2>1. c \in 1..Len(cards) /\ c \in Nat
    BY RunFacts, LenProperties DEF ServerOK
  <2> DEFINE o    == [op[w] EXCEPT !.found = c]
             next == [o EXCEPT !.pc = "putCard"]
  <2>2. /\ o \in RunType /\ o.ver = op[w].ver /\ o.section = op[w].section
        /\ o.db = op[w].db /\ o.cards = op[w].cards /\ o.found = c /\ o.seen = op[w].seen
    BY <1>2, <2>1, Finding
  <2>3. GoOn(w, o, "putCard") /\ "putCard" \in Steps
    BY <1>3 DEF Steps
  <2> HIDE DEF o
  <2>4. /\ next.pc = "putCard" /\ next.ver = o.ver /\ next.section = o.section
        /\ next.db = o.db /\ next.cards = o.cards /\ next.found = o.found
        /\ next.seen = o.seen
    BY <2>2, <2>3, GoingOn
  <2> HIDE DEF next
  <2>5. next.found <= Len(cards) + Len(boards)
    BY <1>2, <2>1, <2>2, <2>4 DEF Lengths
  <2>6. "putCard" \notin Early \cup AtBoard
    BY DEF Early, AtBoard
  <2>7. RunOK(next)
    BY <1>1, <1>2, <1>3, <2>1, <2>2, <2>4, <2>5, <2>6
       DEF RunOK, ThisCard, List
  <2>8. Fits(o, "putCard")
    BY <2>2, <2>3, <2>7 DEF Fits, next
  <2> QED  BY <1>1, <2>3, <2>8, LooksAreLocal, RunGoesOn
<1>4. CASE GoOn(w, op[w], "postCard")
  <2>1. "postCard" \in Steps
    BY DEF Steps
  <2>2. Fits(op[w], "postCard")
    BY <1>1, <1>2, <2>1, RunAtStep DEF AtCard, AtBoard, Early
  <2> QED  BY <1>1, <1>4, <2>2, LooksAreLocal, RunGoesOn
<1> QED  BY <1>3, <1>4 DEF FindCard

-----------------------------------------------------------------------------
(* The steps that change what others see. *)

\* So does the start of a run.
LEMMA StartKeeps == ASSUME IInv, NEW w \in Operators, Start(w) PROVE IInv'
<1>1. /\ At(w, "idle") /\ runs < MaxRuns /\ runs' = runs + 1
      /\ clean' = (clean /\ Running = {})
      /\ UNCHANGED <<server, late, torn>>
  BY DEF Start
<1>2. PICK v \in 1..MaxCode :
        /\ code' = v
        /\ op' = [op EXCEPT ![w] = [Idle EXCEPT !.pc = "health", !.ver = v]]
  BY DEF Start
<1>3. PICK r \in RunType : r = Idle /\ RunOK(r)
  BY IdleIsOK
<1> DEFINE next == [r EXCEPT !.pc = "health", !.ver = v]
<1>4. op' = [op EXCEPT ![w] = next]
  BY <1>2, <1>3
<1>5. v \in 0..MaxCode /\ v # 0 /\ "health" \in Steps
  BY <1>2, ConstantsOK DEF ConstantsOK, Steps
<1>6. /\ next \in RunType /\ next.pc = "health" /\ next.ver = v
      /\ next.section = r.section /\ next.db = r.db /\ next.cards = r.cards
      /\ next.found = r.found /\ next.seen = r.seen
  BY ONLY <1>3, <1>5 DEF RunType
<1> HIDE DEF next
<1>7. /\ "health" \notin AtCard \cup AtBoard /\ r.section = 1 /\ r.cards = <<>>
      /\ r.seen = {}
  BY <1>3 DEF AtCard, AtBoard, Idle
<1>8. RunOK(next)
  <2>1. Named(next.section, next.ver, next.cards)
    BY <1>6, <1>7, EmptySeq DEF Named
  <2> QED  BY <1>3, <1>5, <1>6, <1>7, <2>1 DEF RunOK
<1>9. Scalars'
  <2>1. code' \in 0..MaxCode
    BY <1>2, <1>5
  <2>2. runs' \in 0..MaxRuns
    BY <1>1, RunFacts, ConstantsOK DEF Scalars, ConstantsOK
  <2>3. clean' \in BOOLEAN
    BY <1>1
  <2> QED  BY <1>1, <2>1, <2>2, <2>3 DEF IInv, Scalars, server
<1> QED  BY <1>1, <1>4, <1>6, <1>8, <1>9, RunLooks

\* A connection is taken as it is found.
LEMMA FindDbKeeps == ASSUME IInv, NEW w \in Operators, FindDb(w) PROVE IInv'
<1>1. op[w].pc = "findDb" /\ Local
  BY DEF FindDb, At
<1>2. /\ op[w].section = 1 /\ op[w].cards = <<>> /\ op[w].seen = {} /\ op[w].ver # 0
      /\ op[w] \in RunType
  BY <1>1, RunFacts DEF RunOK, Early
<1>3. ASSUME NEW d \in DOMAIN dbs,
             GoOn(w, [op[w] EXCEPT !.db = d, !.seen = dbs[d].tables], "findCard")
      PROVE  IInv'
  <2>1. d \in 1..Len(dbs) /\ d \in Nat
    BY RunFacts, LenProperties DEF ServerOK
  <2>2. PICK seen \in SUBSET Tables : seen = dbs[d].tables
    <3>1. dbs[d] \in DbType
      BY <2>1, RunFacts, ElementOfSeq DEF ServerOK
    <3> QED  BY <3>1 DEF DbType
  <2> DEFINE o == [op[w] EXCEPT !.db = d, !.seen = seen]
  <2>3. /\ o \in RunType /\ o.ver = op[w].ver /\ o.section = op[w].section
        /\ o.db = d /\ o.cards = op[w].cards /\ o.found = op[w].found /\ o.seen = seen
    BY <1>2, <2>1, Connecting, Seeing DEF RunType
  <2>4. GoOn(w, o, "findCard")
    BY <1>3, <2>2
  <2> HIDE DEF o
  <2>5. Fits(o, "findCard")
    BY <1>1, <1>2, <2>1, <2>2, <2>3, FirstCard
  <2> QED  BY <1>1, <2>4, <2>5, LooksAreLocal, RunGoesOn
<1>4. CASE GoOn(w, op[w], "postDb")
  <2>1. "postDb" \in Steps
    BY DEF Steps
  <2>2. Fits(op[w], "postDb")
    BY <1>1, <1>2, <2>1, RunAtStep DEF AtCard, AtBoard
  <2> QED  BY <1>1, <1>4, <2>2, LooksAreLocal, RunGoesOn
<1> QED  BY <1>3, <1>4 DEF FindDb

\* Only the server moves.
LEMMA ServerMoves ==
  ASSUME IInv, Scalars', ServerOK', Grows, UNCHANGED op,
         \A q \in late' : q \in late
  PROVE  IInv'
<1>1. ServerOK /\ Lengths /\ Lengths'
  BY LenProperties DEF IInv, ServerOK, Lengths
<1>2. ASSUME NEW v \in Operators PROVE RunOK(op[v])'
  <2>1. PICK o \in RunType : o = op[v] /\ o = op'[v] /\ RunOK(o)
    BY DEF IInv, RunsOK
  <2>2. RunOK(o)'
    BY <1>1, <2>1, GrowthKeepsRuns
  <2> QED  BY <2>1, <2>2 DEF RunOK
<1>3. \A q \in late' : Legal(q)'
  BY <1>1, GrowthKeepsCalls DEF IInv
<1> QED  BY <1>2, <1>3 DEF IInv, RunsOK

\* So does a call that lands after its client gave up.
LEMMA LateCallKeeps == ASSUME IInv, LateCall PROVE IInv'
<1>1. PICK q \in late :
        /\ Serve(q) /\ late' = late \ {q}
        /\ torn' = IF q.call = "postBoard" THEN torn \cup {q.id} ELSE torn
  BY DEF LateCall
<1>2. Legal(q) /\ ServerOK
  BY <1>1 DEF IInv
<1>3. ServerOK' /\ Grows
  BY <1>1, <1>2, ServeIsSafe
<1>4. setup' \in BOOLEAN
  BY <1>1 DEF Serve, IInv, Scalars
<1>5. torn' \subseteq Boards
  BY <1>1, <1>2 DEF Legal, IInv, Scalars
<1>6. Scalars'
  BY <1>4, <1>5 DEF IInv, Scalars, LateCall
<1> QED  BY <1>1, <1>3, <1>6, ServerMoves DEF LateCall

\* So does Metabase's own synchronisation.
LEMMA SyncKeeps == ASSUME IInv, Sync PROVE IInv'
<1>1. PICK d \in DOMAIN dbs, more \in SUBSET Tables :
        dbs' = [dbs EXCEPT ![d] = [synced |-> TRUE, tables |-> @.tables \cup more]]
  BY DEF Sync
<1>2. /\ dbs \in Seq(DbType) /\ Lengths /\ ServerOK
      /\ UNCHANGED <<code, runs, setup, cards, boards, late, op, clean, torn>>
  BY LengthsAreNat DEF IInv, ServerOK, Sync
<1>3. d \in 1..Len(dbs) /\ dbs[d] \in DbType
  BY <1>1, <1>2, LenProperties, ElementOfSeq
<1> DEFINE new == [synced |-> TRUE, tables |-> dbs[d].tables \cup more]
<1>4. new \in DbType /\ dbs[d].tables \subseteq new.tables
  BY <1>1, <1>3 DEF DbType
<1>5. dbs' = [dbs EXCEPT ![d] = new]
  BY <1>1
<1> HIDE DEF new
<1>6. /\ dbs' \in Seq(DbType) /\ Len(dbs') = Len(dbs)
      /\ \A e \in 1..Len(dbs) : dbs'[e] = IF e = d THEN new ELSE dbs[e]
  BY <1>2, <1>3, <1>4, <1>5, ExceptSeq
<1>7. Grows /\ Lengths'
  BY <1>2, <1>4, <1>6 DEF Grows, Lengths
<1>8. ServerOK'
  <2>1. \A b \in 1..Len(boards') : boards'[b] \in BoardType /\ BoardOK(boards'[b])
    BY <1>2, ElementOfSeq DEF ServerOK, BoardOK
  <2>2. \A b \in 1..Len(boards') : BoardOK(boards[b])'
    BY <1>2, <1>7, <2>1, GrowthKeepsBoards
  <2> QED  BY <1>2, <1>6, <2>2 DEF ServerOK, BoardOK
<1>9. Scalars'
  BY <1>2 DEF IInv, Scalars
<1> QED  BY <1>2, <1>7, <1>8, <1>9, ServerMoves

-----------------------------------------------------------------------------
(* The steps that write. *)

\* A call changes no scalar but the administrator's account.
LEMMA CallKeepsScalars ==
  ASSUME IInv, NEW w \in Operators, Serve(Call(w)),
         UNCHANGED <<code, runs, clean>>, torn' \subseteq Boards
  PROVE  Scalars'
<1>1. setup' \in BOOLEAN
  BY DEF Serve, IInv, Scalars
<1> QED  BY <1>1 DEF IInv, Scalars

\* So does the setup of the account.
LEMMA SetupKeeps == ASSUME IInv, NEW w \in Operators, Setup(w) PROVE IInv'
<1>1. /\ op[w].pc = "setup" /\ UNCHANGED <<code, runs, late, clean, torn>>
      /\ "again" \in Steps /\ op[w].pc \in Writes
  BY DEF Setup, At, Steps, Writes
<1>2. op[w].section = 1 /\ op[w].cards = <<>> /\ op[w].seen = {}
  BY <1>1, RunFacts DEF RunOK, Early
<1>3. Fits(op[w], "again")
  BY <1>1, <1>2, RunAtStep DEF AtCard, AtBoard
<1>4. CASE Serve(Call(w)) /\ GoOn(w, op[w], "again")
  <2>1. Scalars'
    BY <1>1, <1>4, CallKeepsScalars DEF IInv, Scalars
  <2>2. /\ [op[w] EXCEPT !.pc = "again"] \in RunType
        /\ RunOK([op[w] EXCEPT !.pc = "again"])
    BY <1>1, <1>3, GoingOn DEF Fits
  <2>3. PICK o \in RunType : op' = [op EXCEPT ![w] = o] /\ RunOK(o)
    BY <1>4, <2>2 DEF GoOn
  <2> QED  BY <1>1, <1>4, <2>1, <2>3, RunWrites
<1>5. CASE GoOn(w, op[w], "again") /\ UNCHANGED server
  <2>1. Scalars'
    BY <1>1, <1>5 DEF IInv, Scalars, server
  <2> QED  BY <1>1, <1>3, <1>5, <2>1, RunGoesOn
<1>6. CASE Over(w) /\ UNCHANGED server
  <2>1. Scalars'
    BY <1>1, <1>6 DEF IInv, Scalars, server
  <2> QED  BY <1>1, <1>6, <2>1, RunStops
<1> QED  BY <1>4, <1>5, <1>6 DEF Setup

\* So does the new connection.
LEMMA PostDbKeeps == ASSUME IInv, NEW w \in Operators, PostDb(w) PROVE IInv'
<1>1. /\ op[w].pc = "postDb" /\ UNCHANGED <<code, runs, late, clean, torn>>
      /\ op[w].pc \in Writes /\ Serve(Call(w)) /\ "pollDb" \in Steps
      /\ "pollDb" \notin AtCard \cup AtBoard
  BY DEF PostDb, At, Writes, Steps, AtCard, AtBoard
<1>2. /\ op[w].section = 1 /\ op[w].cards = <<>> /\ op[w].ver # 0 /\ Lengths
      /\ op[w].seen = {} /\ op[w] \in RunType /\ op[w].found <= Len(cards) + Len(boards)
      /\ op[w].found \in Nat
  BY <1>1, RunFacts DEF RunOK, Early
<1>3. Scalars' /\ Lengths' /\ Grows
  BY <1>1, CallKeepsScalars, CallIsServed DEF IInv, Scalars
<1>4. Len(dbs') = Len(dbs) + 1
  <2>1. Call(w).call = "postDb"
    BY <1>1 DEF Call, Request
  <2>2. [synced |-> FALSE, tables |-> {}] \in DbType
    BY DEF DbType
  <2>3. dbs' = Append(dbs, [synced |-> FALSE, tables |-> {}])
    BY <1>1, <2>1 DEF Serve
  <2> QED  BY <2>2, <2>3, OneMore DEF IInv, ServerOK
<1> DEFINE d    == Len(dbs) + 1
           o    == [op[w] EXCEPT !.db = d]
           next == [o EXCEPT !.pc = "pollDb"]
<1>5. d \in Nat /\ d # 0 /\ d <= Len(dbs')
  BY <1>2, <1>4 DEF Lengths
<1>6. op' = [op EXCEPT ![w] = next]
  BY DEF PostDb, GoOn
<1> HIDE DEF d
<1>7. /\ o \in RunType /\ o.ver = op[w].ver /\ o.section = op[w].section
      /\ o.db = d /\ o.cards = op[w].cards /\ o.found = op[w].found /\ o.seen = {}
  BY <1>2, <1>5, Connecting
<1> HIDE DEF o
<1>8. /\ next \in RunType /\ next.pc = "pollDb" /\ next.ver = o.ver
      /\ next.section = o.section /\ next.db = o.db /\ next.cards = o.cards
      /\ next.found = o.found /\ next.seen = {}
  BY <1>1, <1>7, GoingOn
<1> HIDE DEF next
<1>9. op'[w] = next
  BY <1>6 DEF IInv, RunsOK
<1>10. RunOK(op[w])'
  <2>1. /\ op'[w].pc = "pollDb" /\ op'[w].ver # 0 /\ op'[w].section = 1
        /\ op'[w].db = d /\ op'[w].cards = <<>> /\ op'[w].found = op[w].found
        /\ op'[w].seen = {}
    BY <1>2, <1>7, <1>8, <1>9
  <2>2. Named(op[w].section, op[w].ver, op[w].cards)'
    BY <2>1, EmptySeq DEF Named
  <2>3. op'[w].found <= Len(cards') + Len(boards')
    BY <1>2, <1>3, <2>1 DEF Grows, Lengths
  <2> QED  BY <1>1, <1>5, <2>1, <2>2, <2>3 DEF RunOK
<1> QED  BY <1>1, <1>3, <1>6, <1>8, <1>10, RunWrites

\* So does the writing of a card.
LEMMA WriteCardKeeps == ASSUME IInv, NEW w \in Operators, WriteCard(w) PROVE IInv'
<1> DEFINE c    == IF At(w, "putCard") THEN op[w].found ELSE Len(cards) + 1
           mine == Append(op[w].cards, c)
           all  == Len(List(w))
           step == IF Len(mine) = all THEN "findBoard" ELSE "findCard"
           o    == [op[w] EXCEPT !.cards = mine]
           next == [o EXCEPT !.pc = step]
<1>1. /\ op[w].pc \in {"putCard", "postCard"} /\ op[w].pc \in Writes
      /\ UNCHANGED <<code, runs, late, clean, torn>> /\ Serve(Call(w))
  BY DEF WriteCard, Writes
<1>2. op' = [op EXCEPT ![w] = next]
  BY DEF WriteCard, GoOn
<1>3. /\ op[w] \in RunType /\ RunOK(op[w]) /\ Lengths /\ op[w].section \in Boards
      /\ op[w].cards \in Seq(Nat) /\ Len(op[w].cards) \in Nat /\ op[w].found \in Nat
      /\ op[w].db # 0 /\ op[w].ver \in 1..MaxCode /\ op[w].ver \in 0..MaxCode
      /\ op[w].db \in Nat /\ op[w].seen \in SUBSET Tables
      /\ Len(op[w].cards) < all /\ all \in Nat
  <2>1. op[w].ver \in 1..MaxCode
    BY <1>1, RunVersion
  <2> QED  BY <1>1, <2>1, RunFacts, SectionType DEF RunOK, AtCard, List
<1>4. Scalars' /\ ServerOK' /\ Grows /\ Lengths'
  BY <1>1, CallKeepsScalars, CallIsServed DEF IInv, Scalars
<1>5. c \in Nat /\ c \in 1..Len(cards') /\ cards'[c].name = ThisCard(w)
  <2>1. CASE op[w].pc = "putCard"
    <3>1. c = op[w].found /\ c \in 1..Len(cards) /\ cards[c].name = ThisCard(w)
      BY <1>3, <2>1 DEF At, RunOK, ThisCard, List
    <3>2. c \in 1..Len(cards')
      BY <1>3, <1>4, <3>1 DEF Grows, Lengths
    <3> QED  BY <1>3, <1>4, <3>1, <3>2 DEF Grows
  <2>2. CASE op[w].pc = "postCard"
    <3>1. Call(w).call = "postCard" /\ Call(w).body = Body(w) /\ Legal(Call(w))
      BY <1>1, <2>2, CallsAreLegal DEF Call, Request
    <3>2. Body(w) \in CardType /\ cards' = Append(cards, Body(w))
      BY <1>1, <3>1 DEF Legal, Serve
    <3>3. Len(cards') = Len(cards) + 1 /\ cards'[Len(cards) + 1] = Body(w)
      BY <3>2, OneMore DEF IInv, ServerOK
    <3>4. c = Len(cards) + 1
      BY <2>2 DEF At
    <3>5. Body(w).name = ThisCard(w)
      BY DEF Body
    <3> QED  BY <1>3, <3>3, <3>4, <3>5 DEF Lengths
  <2> QED  BY <1>1, <2>1, <2>2
<1> HIDE DEF c
<1>6. /\ mine \in Seq(Nat) /\ Len(mine) = Len(op[w].cards) + 1
      /\ mine[Len(op[w].cards) + 1] = c
      /\ \A i \in 1..Len(op[w].cards) : mine[i] = op[w].cards[i]
  BY <1>3, <1>5, OneMore
<1> HIDE DEF mine
<1>7. PICK s \in Boards, v \in 0..MaxCode, have \in Seq(Nat), m \in Seq(Nat) :
        s = op[w].section /\ v = op[w].ver /\ have = op[w].cards /\ m = mine
  BY <1>3, <1>6
<1>7a. Named(s, v, m)'
  <2>1. Named(s, v, have)'
    BY <1>3, <1>4, <1>7, GrowthKeepsNames DEF RunOK
  <2>2. Len(have) \in Nat /\ Len(m) = Len(have) + 1
    BY <1>3, <1>6, <1>7
  <2>3. ASSUME NEW i \in 1..Len(m)
        PROVE  m[i] \in 1..Len(cards') /\ cards'[m[i]].name = <<s, Listed(s, v)[i]>>
    <3>1. CASE i \in 1..Len(have)
      <4>1. m[i] = have[i]
        BY <1>6, <1>7, <3>1
      <4> QED  BY <2>1, <3>1, <4>1 DEF Named
    <3>2. CASE i = Len(have) + 1
      <4>1. m[i] = c /\ ThisCard(w) = <<s, Listed(s, v)[i]>>
        BY <1>6, <1>7, <3>2 DEF ThisCard, List
      <4> QED  BY <1>5, <4>1
    <3> QED  BY <2>2, <3>1, <3>2
  <2> QED  BY <2>3 DEF Named
<1>8. /\ step \in {"findBoard", "findCard"} /\ step \in Steps
      /\ step = "findBoard" => Len(mine) = all
      /\ step = "findCard" => Len(mine) < all
  BY <1>3, <1>6 DEF Steps
<1> HIDE DEF step
<1>9. /\ o \in RunType /\ o.ver = op[w].ver /\ o.section = op[w].section
      /\ o.db = op[w].db /\ o.cards = mine /\ o.found = op[w].found
      /\ o.seen = op[w].seen
  BY <1>3, <1>6, Collecting
<1> HIDE DEF o
<1>10. /\ next \in RunType /\ next.pc = step /\ next.ver = o.ver
       /\ next.section = o.section /\ next.db = o.db /\ next.cards = o.cards
       /\ next.found = o.found /\ next.seen = o.seen
  BY <1>8, <1>9, GoingOn
<1> HIDE DEF next
<1>11. op'[w] = next
  BY <1>2 DEF IInv, RunsOK
<1>12. RunOK(op[w])'
  <2>1. PICK d \in Nat, seen \in SUBSET Tables : d = op[w].db /\ seen = op[w].seen
    BY <1>3
  <2>2. /\ op'[w].pc = step /\ op'[w].ver = v /\ op'[w].section = s
        /\ op'[w].db = d /\ op'[w].cards = m /\ op'[w].found = op[w].found
        /\ op'[w].seen = seen
    BY <1>3, <1>7, <1>9, <1>10, <1>11, <2>1
  <2>3. Named(op[w].section, op[w].ver, op[w].cards)'
    BY <1>7a, <2>2 DEF Named
  <2>4. d <= Len(dbs') /\ op'[w].found <= Len(cards') + Len(boards')
    <3>1. PICK f \in Nat : f = op[w].found
      BY <1>3
    <3>2. d <= Len(dbs) /\ f <= Len(cards) + Len(boards)
      BY <1>3, <2>1, <3>1 DEF RunOK
    <3>3. d <= Len(dbs') /\ f <= Len(cards') + Len(boards')
      BY <1>3, <1>4, <3>2 DEF Grows, Lengths
    <3> QED  BY <2>2, <3>1, <3>3
  <2>5. seen \subseteq dbs'[d].tables
    <3>1. d \in 1..Len(dbs) /\ seen \subseteq dbs[d].tables
      BY <1>3, <2>1 DEF RunOK, Lengths
    <3> QED  BY <1>4, <3>1 DEF Grows
  <2>6. step \notin Early
    BY <1>8 DEF Early
  <2>7. all = Len(Listed(s, v)) /\ d # 0 /\ v # 0
    BY <1>3, <1>7, <2>1 DEF List
  <2> QED
    BY <1>7, <1>8, <2>2, <2>3, <2>4, <2>5, <2>6, <2>7 DEF RunOK, AtCard, AtBoard
<1> QED  BY <1>1, <1>2, <1>4, <1>10, <1>12, RunWrites

\* So does the new dashboard.
LEMMA PostBoardKeeps == ASSUME IInv, NEW w \in Operators, PostBoard(w) PROVE IInv'
<1>1. /\ op[w].pc = "postBoard" /\ UNCHANGED <<code, runs, late, clean, torn>>
      /\ op[w].pc \in Writes /\ Serve(Call(w)) /\ "putBoard" \in Steps
      /\ "putBoard" \notin Early \cup AtCard
  BY DEF PostBoard, At, Writes, Steps, Early, AtCard
<1>2. /\ op[w] \in RunType /\ RunOK(op[w]) /\ Lengths /\ op[w].db # 0 /\ op[w].ver # 0
      /\ op[w].cards \in Seq(Nat) /\ op[w].section \in Boards /\ op[w].db \in Nat
      /\ op[w].ver \in 0..MaxCode /\ op[w].seen \in SUBSET Tables
      /\ Len(op[w].cards) = Len(Listed(op[w].section, op[w].ver))
  BY <1>1, RunFacts DEF RunOK, AtBoard
<1>3. Scalars' /\ Lengths' /\ Grows
  BY <1>1, CallKeepsScalars, CallIsServed DEF IInv, Scalars
<1> DEFINE b    == Len(boards) + 1
           o    == [op[w] EXCEPT !.found = b]
           next == [o EXCEPT !.pc = "putBoard"]
<1>4. b \in 1..Len(boards') /\ b \in Nat /\ boards'[b].name = op[w].section
  <2>1. Call(w).call = "postBoard" /\ Call(w).id = op[w].section
    BY <1>1 DEF Call, Request
  <2> DEFINE new == [name |-> op[w].section, cards |-> <<>>]
  <2>2. boards' = Append(boards, new)
    BY <1>1, <2>1 DEF Serve
  <2>3. new \in BoardType /\ new.name = op[w].section
    BY <1>2, EmptySeq DEF BoardType
  <2> HIDE DEF new
  <2>4. Len(boards') = Len(boards) + 1 /\ boards'[Len(boards) + 1] = new
    BY <2>2, <2>3, OneMore DEF IInv, ServerOK
  <2> QED  BY <1>2, <2>3, <2>4 DEF Lengths
<1>5. op' = [op EXCEPT ![w] = next]
  BY DEF PostBoard, GoOn
<1> HIDE DEF b
<1>6. /\ o \in RunType /\ o.ver = op[w].ver /\ o.section = op[w].section
      /\ o.db = op[w].db /\ o.cards = op[w].cards /\ o.found = b /\ o.seen = op[w].seen
  BY <1>2, <1>4, Finding
<1> HIDE DEF o
<1>7. /\ next \in RunType /\ next.pc = "putBoard" /\ next.ver = o.ver
      /\ next.section = o.section /\ next.db = o.db /\ next.cards = o.cards
      /\ next.found = o.found /\ next.seen = o.seen
  BY <1>1, <1>6, GoingOn
<1> HIDE DEF next
<1>8. op'[w] = next
  BY <1>5 DEF IInv, RunsOK
<1>9. RunOK(op[w])'
  <2>1. PICK s \in Boards, v \in 0..MaxCode, m \in Seq(Nat), d \in Nat,
             seen \in SUBSET Tables :
          /\ s = op[w].section /\ v = op[w].ver /\ m = op[w].cards
          /\ d = op[w].db /\ seen = op[w].seen
    BY <1>2
  <2>2. /\ op'[w].pc = "putBoard" /\ op'[w].ver = v /\ op'[w].section = s
        /\ op'[w].db = d /\ op'[w].cards = m /\ op'[w].found = b /\ op'[w].seen = seen
    BY <1>2, <1>6, <1>7, <1>8, <2>1
  <2>3. Named(s, v, m)'
    BY <1>2, <1>3, <2>1, GrowthKeepsNames DEF RunOK
  <2>4. Named(op[w].section, op[w].ver, op[w].cards)'
    BY <2>2, <2>3 DEF Named
  <2>5. d <= Len(dbs') /\ op'[w].found <= Len(cards') + Len(boards')
    BY <1>2, <1>3, <1>4, <2>1, <2>2, RunFacts DEF RunOK, Grows, Lengths
  <2>6. seen \subseteq dbs'[d].tables
    <3>1. d \in 1..Len(dbs) /\ seen \subseteq dbs[d].tables
      BY <1>2, <2>1 DEF RunOK, Lengths
    <3> QED  BY <1>3, <3>1 DEF Grows
  <2> QED  BY <1>1, <1>2, <1>4, <2>1, <2>2, <2>4, <2>5, <2>6 DEF RunOK
<1> QED  BY <1>1, <1>3, <1>5, <1>7, <1>9, RunWrites

\* So does the filling of a dashboard.
LEMMA PutBoardKeeps == ASSUME IInv, NEW w \in Operators, PutBoard(w) PROVE IInv'
<1>1. /\ op[w].pc = "putBoard" /\ UNCHANGED <<code, runs, late, clean, torn>>
      /\ op[w].pc \in Writes /\ Serve(Call(w)) /\ NextSection(w)
  BY DEF PutBoard, At, Writes
<1>2. Scalars'
  BY <1>1, CallKeepsScalars DEF IInv, Scalars
<1>3. PICK o \in RunType : op' = [op EXCEPT ![w] = o] /\ RunOK(o)
  BY <1>1, SectionDone
<1> QED  BY <1>1, <1>2, <1>3, RunWrites

\* So does a run's death at any call.
LEMMA DiesKeeps == ASSUME IInv, NEW w \in Operators, Dies(w) PROVE IInv'
<1>1. Over(w) /\ UNCHANGED <<code, runs, clean>> /\ torn' \subseteq Boards
  BY RunFacts DEF Dies, Scalars
<1>2. CASE op[w].pc \in Writes /\ Serve(Call(w)) /\ UNCHANGED late
  <2>1. Scalars'
    BY <1>1, <1>2, CallKeepsScalars
  <2>2. PICK o \in RunType : op' = [op EXCEPT ![w] = o] /\ RunOK(o)
    BY <1>1, IdleIsOK DEF Over
  <2> QED  BY <1>1, <1>2, <2>1, <2>2, RunWrites
<1>3. CASE UNCHANGED <<server, late>>
  <2>1. Scalars'
    BY <1>1, <1>3 DEF IInv, Scalars, server
  <2> QED  BY <1>1, <1>3, <2>1, RunStops
<1>4. CASE op[w].pc \in Writes /\ late' = late \cup {Call(w)} /\ UNCHANGED server
  <2>1. Scalars'
    BY <1>1, <1>4 DEF IInv, Scalars, server
  <2>2. Legal(Call(w))
    BY <1>4, CallsAreLegal
  <2> HIDE DEF Call
  <2>3. \A q \in late' : q \in late \/ Legal(q)
    BY <1>4, <2>2
  <2> QED  BY <1>1, <1>4, <2>1, <2>3, RunStops
<1> QED  BY <1>2, <1>3, <1>4 DEF Dies

\* The invariant holds in the beginning and is kept.
LEMMA InitHolds == Init => IInv
<1> SUFFICES ASSUME Init PROVE IInv
  OBVIOUS
<1>1. Scalars
  <2>1. 0 \in 0..MaxCode /\ 0 \in 0..MaxRuns
    BY ConstantsOK DEF ConstantsOK
  <2> QED  BY <2>1, Zenon DEF Init, Scalars
<1>2. ServerOK
  BY EmptySeq DEF Init, ServerOK
<1>3. RunsOK
  <2>1. Idle \in RunType
    BY IdleIsOK
  <2>2. RunOK(Idle)
    BY EmptySeq DEF Init, RunOK, Idle, Named, Early, AtCard, AtBoard
  <2> QED  BY <2>1, <2>2 DEF Init, RunsOK
<1> QED  BY <1>1, <1>2, <1>3 DEF Init, IInv

\* Every step keeps the invariant.
LEMMA NextKeeps == IInv /\ [Next]_vars => IInv'
<1> SUFFICES ASSUME IInv, [Next]_vars PROVE IInv'
  OBVIOUS
<1>1. CASE UNCHANGED vars
  <2>1. Scalars' /\ UNCHANGED <<server, late, op>>
    BY <1>1 DEF vars, server, IInv, Scalars
  <2>2. Grows
    BY <2>1, LengthsAreNat DEF Grows, server, IInv, Lengths
  <2>3. ServerOK'
    BY <2>1 DEF IInv, ServerOK, server, Whole, Named
  <2> QED  BY <2>1, <2>2, <2>3, ServerMoves
<1>2. CASE Sync
  BY <1>2, SyncKeeps
<1>3. CASE LateCall
  BY <1>3, LateCallKeeps
<1>4. ASSUME NEW w \in Operators, Start(w) \/ Step(w) \/ Dies(w) PROVE IInv'
  <2>1. CASE Start(w)
    BY <2>1, StartKeeps
  <2>2. CASE Dies(w)
    BY <2>2, DiesKeeps
  <2>3. CASE WaitHealthy(w) \/ Login(w) \/ Setup(w) \/ LoginAgain(w) \/ FindDb(w)
    BY <2>3, HealthKeeps, LoginKeeps, SetupKeeps, LoginAgainKeeps, FindDbKeeps
  <2>4. CASE PostDb(w) \/ PollDb(w) \/ CheckDb(w) \/ WaitTable(w) \/ FindCard(w)
    BY <2>4, PostDbKeeps, PollDbKeeps, CheckDbKeeps, WaitTableKeeps, FindCardKeeps
  <2>5. CASE WriteCard(w) \/ FindBoard(w) \/ PostBoard(w) \/ PutBoard(w)
    BY <2>5, WriteCardKeeps, FindBoardKeeps, PostBoardKeeps, PutBoardKeeps
  <2>6. CASE End(w)
    BY <2>6, LooksAreLocal, RunStops DEF End
  <2> QED  BY <1>4, <2>1, <2>2, <2>3, <2>4, <2>5, <2>6 DEF Step
<1> QED  BY <1>1, <1>2, <1>3, <1>4 DEF Next

\* Every call under way is one that the server can carry out, at all times.
THEOREM Invariance == Spec => []IInv
BY InitHolds, NextKeeps, PTL DEF Spec

-----------------------------------------------------------------------------
(* What follows from the invariant at all times. *)

\* A sequence is a sequence over any set that has its elements.
LEMMA Retyped ==
  ASSUME NEW S, NEW T, NEW s \in Seq(S), \A i \in 1..Len(s) : s[i] \in T
  PROVE  s \in Seq(T)
<1>1. s \in [1..Len(s) -> S] /\ Len(s) \in Nat
  BY LenProperties
<1>2. s = [i \in 1..Len(s) |-> s[i]]
  BY <1>1
<1>3. [i \in 1..Len(s) |-> s[i]] \in Seq(T)
  BY <1>1
<1> QED  BY <1>2, <1>3, Zenon

\* Every variable keeps its type: what a run or a dashboard points at by its
\* id is always there.
THEOREM TypeCorrect == Spec => []TypeOK
<1>1. IInv => TypeOK
  <2> SUFFICES ASSUME IInv PROVE TypeOK
    OBVIOUS
  <2>1. Scalars /\ ServerOK /\ Lengths /\ DOMAIN cards = 1..Len(cards)
    BY LengthsAreNat, LenProperties DEF IInv, ServerOK
  <2>2. cards \in Seq(CardBody)
    <3>1. ASSUME NEW c \in 1..Len(cards) PROVE cards[c] \in CardBody
      <4>1. cards[c] \in CardType /\ cards[c].db \in 1..Len(dbs)
        BY <2>1, ElementOfSeq DEF ServerOK
      <4> QED  BY <4>1 DEF CardType, CardBody
    <3> QED  BY <2>1, <3>1, Retyped DEF ServerOK
  <2>3. ASSUME NEW s \in Boards, NEW v \in 0..MaxCode, NEW mine \in Seq(Nat),
               Named(s, v, mine)
        PROVE  mine \in Seq(DOMAIN cards)
    <3>1. \A i \in 1..Len(mine) : mine[i] \in DOMAIN cards
      BY <2>1, <2>3 DEF Named
    <3> QED  BY <3>1, Retyped
  <2>4. boards \in Seq([name : Boards, cards : Seq(DOMAIN cards)])
    <3>1. ASSUME NEW b \in 1..Len(boards)
          PROVE  boards[b] \in [name : Boards, cards : Seq(DOMAIN cards)]
      <4>1. boards[b] \in BoardType
        BY <2>1, ElementOfSeq DEF ServerOK
      <4>2. boards[b].name \in Boards /\ boards[b].cards \in Seq(Nat)
        BY <4>1 DEF BoardType
      <4>3. boards[b].cards \in Seq(DOMAIN cards)
        <5>1. CASE boards[b].cards = <<>>
          BY <5>1, EmptySeq
        <5>2. CASE boards[b].cards # <<>>
          <6>1. Whole(boards[b].name, boards[b].cards)
            BY <2>1, <5>2 DEF ServerOK
          <6>2. PICK v \in 1..MaxCode : Named(boards[b].name, v, boards[b].cards)
            BY <6>1 DEF Whole
          <6>3. v \in 0..MaxCode
            BY ConstantsOK DEF ConstantsOK
          <6> QED  BY <2>3, <4>2, <6>2, <6>3
        <5> QED  BY <5>1, <5>2
      <4> QED  BY <4>1, <4>2, <4>3 DEF BoardType
    <3> QED  BY <2>1, <3>1, Retyped DEF ServerOK
  <2>5. ASSUME NEW w \in Operators
        PROVE  /\ op[w].pc \in Steps
               /\ op[w].ver \in 0..MaxCode /\ op[w].polls \in 0..Polls
               /\ op[w].section \in Boards
               /\ op[w].db \in 0..Len(dbs) /\ op[w].seen \subseteq Tables
               /\ op[w].cards \in Seq(DOMAIN cards)
               /\ op[w].found \in 0..(Len(cards) + Len(boards))
    <3>1. Named(op[w].section, op[w].ver, op[w].cards)
      BY RunFacts DEF RunOK
    <3>2. op[w].cards \in Seq(DOMAIN cards)
      BY <2>3, <3>1, RunFacts
    <3>3. op[w].db \in 0..Len(dbs) /\ op[w].found \in 0..(Len(cards) + Len(boards))
      BY <2>1, RunFacts DEF RunOK, Lengths
    <3> QED  BY <3>2, <3>3, RunFacts
  <2>6. dbs \in Seq([synced : BOOLEAN, tables : SUBSET Tables])
    BY <2>1 DEF ServerOK, DbType
  <2> QED  BY <2>1, <2>2, <2>4, <2>5, <2>6 DEF TypeOK, Scalars
<1> QED  BY <1>1, Invariance, PTL

\* A dashboard of scripts/metabase_bootstrap.py is empty or shows the cards
\* that one version of the script gives it, whatever rival runs, deaths and
\* late calls did.
THEOREM BoardsAreWhole == Spec => []BoardsAreEmptyOrWhole
<1>1. IInv => BoardsAreEmptyOrWhole
  <2> SUFFICES ASSUME IInv, NEW b \in DOMAIN boards, boards[b].cards # <<>>
               PROVE  \E v \in 1..MaxCode :
                        /\ Len(boards[b].cards) = Len(Listed(boards[b].name, v))
                        /\ NamesShown(boards[b])
                           = {boards[b].name} \X ToSet(Listed(boards[b].name, v))
    BY DEF BoardsAreEmptyOrWhole
  <2>1. ServerOK /\ b \in 1..Len(boards)
    BY LenProperties DEF IInv, ServerOK
  <2>2. boards[b] \in BoardType
    BY <2>1, ElementOfSeq DEF ServerOK
  <2>3. PICK s \in Boards, mine \in Seq(Nat) : s = boards[b].name /\ mine = boards[b].cards
    BY <2>2 DEF BoardType
  <2>4. PICK v \in 1..MaxCode : Len(mine) = Len(Listed(s, v)) /\ Named(s, v, mine)
    BY <2>1, <2>3 DEF ServerOK, Whole
  <2>5. PICK list \in Seq(Nat) : list = Listed(s, v)
    BY SectionType
  <2> DEFINE N   == 1..Len(list)
             all == {cards[c].name : c \in ToSet(mine)}
  <2>6. /\ DOMAIN mine = N /\ DOMAIN list = N
        /\ \A n \in N : cards[mine[n]].name = <<s, list[n]>>
    BY <2>4, <2>5, LenProperties DEF Named
  <2> HIDE DEF N
  <2>7. ToSet(mine) = {mine[n] : n \in N} /\ ToSet(list) = {list[n] : n \in N}
    BY <2>6 DEF ToSet
  <2>8. ASSUME NEW p \in all PROVE p \in {s} \X ToSet(list)
    <3>1. PICK c \in ToSet(mine) : p = cards[c].name
      OBVIOUS
    <3>2. PICK n \in N : c = mine[n]
      BY <2>7
    <3>3. PICK x \in ToSet(list) : x = list[n]
      BY <2>7
    <3>4. p = <<s, x>>
      BY <2>6, <3>1, <3>2, <3>3
    <3> HIDE DEF all
    <3> QED  BY <3>4, SMT
  <2>9. ASSUME NEW p \in {s} \X ToSet(list) PROVE p \in all
    <3>1. PICK x \in ToSet(list) : p = <<s, x>>
      OBVIOUS
    <3>2. PICK n \in N : x = list[n]
      BY <2>7
    <3>3. mine[n] \in ToSet(mine) /\ cards[mine[n]].name = p
      BY <2>6, <2>7, <3>1, <3>2
    <3> QED  BY <3>3
  <2>10. all = {s} \X ToSet(list)
    <3> HIDE DEF all
    <3> QED  BY <2>8, <2>9
  <2> QED  BY <2>3, <2>4, <2>5, <2>10 DEF NamesShown
<1> QED  BY <1>1, Invariance, PTL

-----------------------------------------------------------------------------
(***************************************************************************)
(* While runs have not met and no late call has landed, there is at most   *)
(* one run, and what it saw is still so when it acts on it: what it did    *)
(* not find is still missing, its cards are on its version, and so are     *)
(* those of every dashboard it has left behind.                            *)
(***************************************************************************)

\* Nothing is there twice.
Tidy ==
  /\ Len(dbs) <= 1
  /\ \A c, d \in 1..Len(cards) : cards[c].name = cards[d].name => c = d
  /\ \A b, d \in 1..Len(boards) : boards[b].name = boards[d].name => b = d

\* The cards are on version v of the script.
Current(mine, v) == \A i \in 1..Len(mine) : cards[mine[i]].ver = v

\* Dashboard s as a run of version v leaves it.
Left(s, v) ==
  /\ \E b \in 1..Len(boards) : boards[b].name = s
  /\ \A i \in 1..Len(Listed(s, v)) :
       \E c \in 1..Len(cards) : cards[c].name = <<s, Listed(s, v)[i]>> /\ cards[c].ver = v

\* The tables of dashboard s were visible when the run took its connection.
Visible(s, seen) == s = 1 \/ Sections[s].awaits \subseteq seen

\* What the only run knows.
Missing(w) ==
  /\ At(w, "postDb") => dbs = <<>>
  /\ At(w, "postCard") => \A c \in 1..Len(cards) : cards[c].name # ThisCard(w)
  /\ At(w, "postBoard") => \A b \in 1..Len(boards) : boards[b].name # op[w].section

Behind(w) ==
  /\ Current(op[w].cards, op[w].ver)
  /\ \A s \in Boards : Visible(s, op[w].seen) =>
       (s < op[w].section \/ At(w, "end") => Left(s, op[w].ver))

\* An empty dashboard is the one at hand, or torn.
Empties(w) ==
  \A b \in 1..Len(boards) : boards[b].cards = <<>> =>
    boards[b].name \in torn \/ (At(w, "putBoard") /\ op[w].found = b)

CleanIInv ==
  clean =>
    /\ Tidy
    /\ \A v, w \in Running : v = w
    /\ \A w \in Running : Missing(w) /\ Behind(w) /\ Empties(w)
    /\ Running = {} =>
         \A b \in 1..Len(boards) : boards[b].cards = <<>> => boards[b].name \in torn

\* The only run moves.
LEMMA OnlyRunMoves ==
  ASSUME IInv, CleanIInv, clean, NEW w \in Running,
         op' \in [Operators -> RunType], \A v \in Operators : v # w => op'[v] = op[v],
         Tidy', Missing(w)', Behind(w)', Empties(w)'
  PROVE  CleanIInv'
<1>1. \A v \in Operators : v # w => op[v].pc = "idle"
  BY DEF CleanIInv, Running
<1>2. w \in Operators /\ Running' \subseteq {w}
  BY <1>1 DEF Running
<1>3. ASSUME Running' = {}
      PROVE  \A b \in 1..Len(boards') : boards'[b].cards = <<>> => boards'[b].name \in torn'
  <2>1. op'[w].pc # "putBoard"
    BY <1>2, <1>3 DEF Running
  <2> QED  BY <2>1 DEF Empties, At
<1> QED  BY <1>2, <1>3 DEF CleanIInv

\* What is known while there is one run.
LEMMA OnlyRun ==
  ASSUME IInv, CleanIInv, clean, NEW w \in Operators, op[w].pc # "idle"
  PROVE  w \in Running /\ Tidy /\ Missing(w) /\ Behind(w) /\ Empties(w)
BY DEF Running, CleanIInv

\* The run goes on, and keeps what it has.
SameRun(w) ==
  /\ op' \in [Operators -> RunType]
  /\ \A v \in Operators : v # w => op'[v] = op[v]
  /\ op'[w].ver = op[w].ver /\ op'[w].section = op[w].section
  /\ op'[w].cards = op[w].cards
  /\ op[w].section = 1 \/ op'[w].seen = op[w].seen

\* What is left stays so while Metabase grows, and cards are only brought to
\* the same version.
LEMMA LeftStays ==
  ASSUME Lengths, Lengths', Grows, NEW v,
         \A c \in 1..Len(cards) : cards'[c].ver = cards[c].ver \/ cards'[c].ver = v
  PROVE  \A s : Left(s, v) => Left(s, v)'
<1> SUFFICES ASSUME NEW s, Left(s, v) PROVE Left(s, v)'
  OBVIOUS
<1>1. \E b \in 1..Len(boards') : boards'[b].name = s
  <2>1. PICK b \in 1..Len(boards) : boards[b].name = s
    BY DEF Left
  <2>2. b \in 1..Len(boards') /\ boards'[b].name = s
    BY <2>1 DEF Grows, Lengths
  <2> QED  BY <2>2
<1>2. ASSUME NEW i \in 1..Len(Listed(s, v))
      PROVE  \E c \in 1..Len(cards') :
               cards'[c].name = <<s, Listed(s, v)[i]>> /\ cards'[c].ver = v
  <2>1. PICK c \in 1..Len(cards) :
          cards[c].name = <<s, Listed(s, v)[i]>> /\ cards[c].ver = v
    BY DEF Left
  <2>2. c \in 1..Len(cards')
    BY DEF Grows, Lengths
  <2>3. cards'[c].name = <<s, Listed(s, v)[i]>> /\ cards'[c].ver = v
    BY <2>1 DEF Grows
  <2> QED  BY <2>2, <2>3
<1> QED  BY <1>1, <1>2 DEF Left

\* The only run keeps what holds while runs do not meet, if it only looks.
LEMMA OnlyRunLooks ==
  ASSUME IInv, CleanIInv, clean, NEW w \in Operators, SameRun(w),
         UNCHANGED <<server, torn>>, Missing(w)',
         op[w].pc \notin {"idle", "putBoard"}, op'[w].pc # "end"
  PROVE  CleanIInv'
<1>1. w \in Running /\ Tidy /\ Behind(w) /\ Empties(w)
  BY OnlyRun
<1>2. dbs' = dbs /\ cards' = cards /\ boards' = boards /\ torn' = torn
  BY DEF server
<1>3. Tidy'
  BY <1>1, <1>2 DEF Tidy
<1>4. Behind(w)'
  <2>1. \A s \in Boards : Visible(s, op'[w].seen) /\ s < op'[w].section =>
          Left(s, op[w].ver)
    <3>1. CASE op[w].section = 1
      BY <3>1, SectionType DEF SameRun
    <3>2. CASE op'[w].seen = op[w].seen
      BY <1>1, <3>2 DEF Behind, SameRun
    <3> QED  BY <3>1, <3>2 DEF SameRun
  <2>2. \A s \in Boards : Left(s, op[w].ver) => Left(s, op[w].ver)'
    BY <1>2 DEF Left, SameRun
  <2>3. Current(op[w].cards, op[w].ver)'
    BY <1>1, <1>2 DEF Behind, Current, SameRun
  <2> QED  BY <2>1, <2>2, <2>3 DEF Behind, At, Visible
<1>5. Empties(w)'
  BY <1>1, <1>2 DEF Empties, At
<1> QED  BY <1>1, <1>3, <1>4, <1>5, OnlyRunMoves DEF SameRun

\* What GoOn keeps of a run.
LEMMA GoOnKeepsRun ==
  ASSUME IInv, NEW w \in Operators, NEW o \in RunType, NEW step \in Steps,
         GoOn(w, o, step), o.ver = op[w].ver, o.section = op[w].section,
         o.cards = op[w].cards, o.section = 1 \/ o.seen = op[w].seen
  PROVE  SameRun(w) /\ op'[w].pc = step
<1> DEFINE next == [o EXCEPT !.pc = step]
<1>1. /\ next \in RunType /\ next.pc = step /\ next.ver = o.ver
      /\ next.section = o.section /\ next.cards = o.cards /\ next.seen = o.seen
  BY GoingOn
<1>2. op' = [op EXCEPT ![w] = next]
  BY DEF GoOn
<1> HIDE DEF next
<1> QED  BY <1>1, <1>2 DEF SameRun, IInv, RunsOK

\* Most looks ask nothing that the next step relies on.
LEMMA QuietLook ==
  ASSUME IInv, CleanIInv, clean, NEW w \in Operators, NEW o \in RunType, NEW step \in Steps,
         GoOn(w, o, step), o.ver = op[w].ver, o.section = op[w].section,
         o.cards = op[w].cards, o.section = 1 \/ o.seen = op[w].seen,
         UNCHANGED <<server, torn>>,
         op[w].pc \notin {"idle", "putBoard"},
         step \notin {"postDb", "postCard", "postBoard", "end"}
  PROVE  CleanIInv'
<1>1. SameRun(w) /\ op'[w].pc = step
  BY GoOnKeepsRun
<1>2. Missing(w)'
  BY <1>1 DEF Missing, At
<1> QED  BY <1>1, <1>2, OnlyRunLooks

\* A run that stops without a word.
LEMMA QuietStop ==
  ASSUME IInv, CleanIInv, clean, NEW w \in Operators, Over(w), UNCHANGED <<server, torn>>,
         op[w].pc \notin {"idle", "putBoard"}
  PROVE  CleanIInv'
<1>1. Idle \in RunType /\ Idle.pc = "idle" /\ Idle.section = 1 /\ Idle.cards = <<>>
  BY IdleIsOK DEF Idle
<1>2. op' = [op EXCEPT ![w] = Idle]
  BY DEF Over
<1>3. /\ op' \in [Operators -> RunType] /\ op'[w] = Idle
      /\ \A v \in Operators : v # w => op'[v] = op[v]
  BY <1>1, <1>2 DEF IInv, RunsOK
<1>4. w \in Running /\ Tidy /\ Empties(w)
  BY OnlyRun
<1>5. Tidy' /\ Empties(w)'
  BY <1>4 DEF Tidy, Empties, At, server
<1>6. Missing(w)' /\ Behind(w)'
  BY <1>1, <1>3, EmptySeq, SectionType DEF Missing, Behind, At, Current
<1> QED  BY <1>3, <1>4, <1>5, <1>6, OnlyRunMoves

\* The looks before the first card, in the code's order.
LEMMA EarlyLooksStayClean ==
  ASSUME IInv, CleanIInv, clean, NEW w \in Operators,
         WaitHealthy(w) \/ Login(w) \/ LoginAgain(w) \/ PollDb(w) \/ CheckDb(w)
  PROVE  CleanIInv'
<1>1. /\ Local /\ op[w] \in RunType /\ op[w].polls \in 0..Polls /\ Polls \in Nat
      /\ op[w].pc \in {"health", "login", "again", "pollDb", "checkDb"}
  BY RunFacts, ConstantsOK
     DEF ConstantsOK, WaitHealthy, Login, LoginAgain, PollDb, CheckDb, At
<1>2. UNCHANGED <<server, torn>> /\ op[w].pc \notin {"idle", "putBoard"}
  BY <1>1 DEF Local
<1>3. ASSUME NEW n \in 0..Polls, NEW step \in {"login", "health", "pollDb", "checkDb"},
             GoOn(w, [op[w] EXCEPT !.polls = n], step)
      PROVE  CleanIInv'
  <2> DEFINE o == [op[w] EXCEPT !.polls = n]
  <2>1. /\ o \in RunType /\ o.ver = op[w].ver /\ o.section = op[w].section
        /\ o.cards = op[w].cards /\ o.seen = op[w].seen
    BY <1>1, Polling
  <2>2. GoOn(w, o, step) /\ step \in Steps
    BY <1>3 DEF Steps
  <2> HIDE DEF o
  <2> QED  BY <1>2, <2>1, <2>2, QuietLook
<1>4. ASSUME NEW step \in {"findDb", "setup"}, GoOn(w, op[w], step)
      PROVE  CleanIInv'
  <2>1. step \in Steps
    BY DEF Steps
  <2> QED  BY <1>1, <1>2, <1>4, <2>1, QuietLook
<1>5. CASE Over(w)
  BY <1>2, <1>5, QuietStop
<1>6. op[w].polls # Polls => op[w].polls + 1 \in 0..Polls
  BY <1>1
<1>7. 0 \in 0..Polls
  BY <1>1
<1>8. CASE WaitHealthy(w)
  <2>1. CASE op[w].polls < Polls /\ GoOn(w, [op[w] EXCEPT !.polls = @ + 1], "health")
    <3>1. op[w].polls + 1 \in 0..Polls
      BY <1>1, <2>1
    <3> QED  BY <1>3, <2>1, <3>1
  <2>2. CASE GoOn(w, [op[w] EXCEPT !.polls = 0], "login")
    BY <1>3, <1>7, <2>2
  <2> QED  BY <1>5, <1>8, <2>1, <2>2 DEF WaitHealthy
<1>9. CASE Login(w) \/ LoginAgain(w)
  BY <1>4, <1>5, <1>9 DEF Login, LoginAgain
<1>10. CASE PollDb(w)
  BY <1>3, <1>6, <1>7, <1>10 DEF PollDb
<1>11. CASE CheckDb(w)
  <2>1. CASE GoOn(w, [op[w] EXCEPT !.seen = dbs[op[w].db].tables], "findCard")
    <3>1. op[w].section = 1 /\ op[w].db \in 1..Len(dbs)
      BY <1>11, RunFacts DEF CheckDb, At, RunOK, Early, Lengths
    <3>2. PICK seen \in SUBSET Tables : seen = dbs[op[w].db].tables
      <4>1. dbs[op[w].db] \in DbType
        BY <3>1, RunFacts, ElementOfSeq DEF ServerOK
      <4> QED  BY <4>1 DEF DbType
    <3> DEFINE o == [op[w] EXCEPT !.seen = seen]
    <3>3. /\ o \in RunType /\ o.ver = op[w].ver /\ o.section = op[w].section
          /\ o.cards = op[w].cards
      BY <1>1, Seeing
    <3>4. GoOn(w, o, "findCard") /\ "findCard" \in Steps
      BY <2>1, <3>2 DEF Steps
    <3> HIDE DEF o
    <3> QED  BY <1>2, <3>1, <3>3, <3>4, QuietLook
  <2> QED  BY <1>5, <1>11, <2>1 DEF CheckDb
<1> QED  BY <1>8, <1>9, <1>10, <1>11

\* So does the look-up of the connection.
LEMMA FindDbStaysClean ==
  ASSUME IInv, CleanIInv, clean, NEW w \in Operators, FindDb(w)
  PROVE  CleanIInv'
<1>1. /\ op[w].pc = "findDb" /\ UNCHANGED <<server, torn>> /\ op[w] \in RunType
      /\ op[w].pc \notin {"idle", "putBoard"} /\ op[w].section = 1
  BY RunFacts DEF FindDb, At, Local, RunOK, Early
<1>2. ASSUME NEW d \in DOMAIN dbs,
             GoOn(w, [op[w] EXCEPT !.db = d, !.seen = dbs[d].tables], "findCard")
      PROVE  CleanIInv'
  <2>1. d \in 1..Len(dbs) /\ d \in Nat
    BY RunFacts, LenProperties DEF ServerOK
  <2>2. PICK seen \in SUBSET Tables : seen = dbs[d].tables
    <3>1. dbs[d] \in DbType
      BY <2>1, RunFacts, ElementOfSeq DEF ServerOK
    <3> QED  BY <3>1 DEF DbType
  <2> DEFINE o == [op[w] EXCEPT !.db = d, !.seen = seen]
  <2>3. /\ o \in RunType /\ o.ver = op[w].ver /\ o.section = op[w].section
        /\ o.cards = op[w].cards
    BY <1>1, <2>1 DEF RunType
  <2>4. GoOn(w, o, "findCard") /\ "findCard" \in Steps
    BY <1>2, <2>2 DEF Steps
  <2> HIDE DEF o
  <2> QED  BY <1>1, <2>3, <2>4, QuietLook
<1>3. CASE dbs = <<>> /\ GoOn(w, op[w], "postDb")
  <2>1. "postDb" \in Steps
    BY DEF Steps
  <2>2. SameRun(w) /\ op'[w].pc = "postDb"
    BY <1>1, <1>3, <2>1, GoOnKeepsRun
  <2>3. Missing(w)'
    BY <1>1, <1>3, <2>2 DEF Missing, At, server
  <2> QED  BY <1>1, <2>2, <2>3, OnlyRunLooks
<1> QED  BY <1>2, <1>3 DEF FindDb

\* So does the look-up of a card: the first of its name is the only one.
LEMMA FindCardStaysClean ==
  ASSUME IInv, CleanIInv, clean, NEW w \in Operators, FindCard(w)
  PROVE  CleanIInv'
<1>1. /\ op[w].pc = "findCard" /\ UNCHANGED <<server, torn>> /\ op[w] \in RunType
      /\ op[w].pc \notin {"idle", "putBoard"}
  BY RunFacts DEF FindCard, At, Local
<1>2. ASSUME NEW c \in DOMAIN cards, GoOn(w, [op[w] EXCEPT !.found = c], "putCard")
      PROVE  CleanIInv'
  <2> DEFINE o == [op[w] EXCEPT !.found = c]
  <2>1. c \in Nat
    BY RunFacts, LenProperties DEF ServerOK
  <2>2. /\ o \in RunType /\ o.ver = op[w].ver /\ o.section = op[w].section
        /\ o.cards = op[w].cards /\ o.seen = op[w].seen
    BY <1>1, <2>1, Finding
  <2>3. GoOn(w, o, "putCard") /\ "putCard" \in Steps
    BY <1>2 DEF Steps
  <2> HIDE DEF o
  <2> QED  BY <1>1, <2>2, <2>3, QuietLook
<1>3. CASE /\ \A c \in DOMAIN cards : cards[c].name # ThisCard(w)
           /\ GoOn(w, op[w], "postCard")
  <2>1. "postCard" \in Steps /\ DOMAIN cards = 1..Len(cards)
    BY RunFacts, LenProperties DEF Steps, ServerOK
  <2>2. SameRun(w) /\ op'[w].pc = "postCard"
    BY <1>1, <1>3, <2>1, GoOnKeepsRun
  <2>3. Missing(w)'
    BY <1>1, <1>3, <2>1, <2>2 DEF Missing, At, server, ThisCard, List, SameRun
  <2> QED  BY <1>1, <2>2, <2>3, OnlyRunLooks
<1> QED  BY <1>2, <1>3 DEF FindCard

\* What has to be so for a run that has moved to have left all in order.
LEMMA MovedOn ==
  ASSUME NEW w, NEW v, NEW k, NEW mine, NEW seen,
         op'[w].ver = v, op'[w].section = k, op'[w].cards = mine, op'[w].seen = seen,
         Current(mine, v)',
         \A s \in Boards :
           Visible(s, seen) /\ (s < k \/ op'[w].pc = "end") => Left(s, v)'
  PROVE  Behind(w)'
<1>1. Current(op[w].cards, op[w].ver)'
  BY DEF Current
<1>2. ASSUME NEW s \in Boards, Visible(s, op'[w].seen),
             s < op'[w].section \/ op'[w].pc = "end"
      PROVE  Left(s, op[w].ver)'
  <2>1. Left(s, v)'
    BY <1>2 DEF Visible
  <2> QED  BY <2>1 DEF Left
<1> QED  BY <1>1, <1>2 DEF Behind, At, Visible

\* The run moves on to the next dashboard, the one at hand being done.
LEMMA SectionDoneCleanly ==
  ASSUME IInv, CleanIInv, clean, NEW w \in Operators, NextSection(w),
         op[w].pc \in {"waitTable", "findBoard", "putBoard"},
         NEW v \in Nat, NEW k \in Boards, NEW mine \in Seq(Nat), NEW seen \in SUBSET Tables,
         v = op[w].ver, k = op[w].section, mine = op[w].cards, seen = op[w].seen,
         Current(mine, v)', \A s \in Boards : Visible(s, seen) /\ s <= k => Left(s, v)',
         \A b \in 1..Len(boards') : boards'[b].cards = <<>> => boards'[b].name \in torn',
         Tidy'
  PROVE  CleanIInv'
<1>1. PICK o \in RunType : op' = [op EXCEPT ![w] = o] /\ RunOK(o)
  BY SectionDone
<1>2. /\ op' \in [Operators -> RunType] /\ op'[w] = o
      /\ \A u \in Operators : u # w => op'[u] = op[u]
  BY <1>1 DEF IInv, RunsOK
<1>3. Len(Sections) \in Nat /\ Boards = 1..Len(Sections) /\ op[w] \in RunType
  BY RunFacts, SectionType
<1>4. Missing(w)' /\ Behind(w)'
  <2>1. CASE k = Len(Sections) /\ GoOn(w, op[w], "end")
    <3>1. "end" \in Steps
      BY DEF Steps
    <3>2. /\ op'[w].pc = "end" /\ op'[w].ver = v /\ op'[w].section = k
          /\ op'[w].cards = mine /\ op'[w].seen = seen
      <4>1. op'[w] = [op[w] EXCEPT !.pc = "end"]
        BY <2>1 DEF GoOn, IInv, RunsOK
      <4> QED  BY <1>3, <3>1, <4>1, GoingOn
    <3>3. \A s \in Boards : Visible(s, seen) => Left(s, v)'
      BY <1>3, <2>1
    <3>4. Missing(w)'
      BY <3>2 DEF Missing, At
    <3>5. Behind(w)'
      BY <3>2, <3>3, MovedOn
    <3> QED  BY <3>4, <3>5
  <2>2. CASE GoOn(w, [Idle EXCEPT !.ver = op[w].ver, !.db = op[w].db, !.seen = op[w].seen,
                                  !.section = op[w].section + 1], "waitTable")
    <3>1. PICK r \in RunType, d \in Nat, n \in Nat :
            r = Idle /\ d = op[w].db /\ n = op[w].section + 1 /\ v \in Nat
      <4>1. Idle \in RunType
        BY IdleIsOK
      <4>2. op[w].db \in Nat
        BY RunFacts
      <4>3. k + 1 \in Nat /\ k = op[w].section
        BY <1>3
      <4> QED  BY ONLY <4>1, <4>2, <4>3, v \in Nat
    <3> DEFINE fresh == [r EXCEPT !.ver = v, !.db = d, !.seen = seen, !.section = n]
               next  == [fresh EXCEPT !.pc = "waitTable"]
    <3>2. op' = [op EXCEPT ![w] = next]
      BY <2>2, <3>1 DEF GoOn
    <3>3. /\ next.pc = "waitTable" /\ next.ver = v /\ next.section = n
          /\ next.cards = r.cards /\ next.seen = seen
      BY ONLY <3>1 DEF RunType
    <3> HIDE DEF next
    <3>4. op'[w] = next
      BY <3>2 DEF IInv, RunsOK
    <3>5. /\ op'[w].pc = "waitTable" /\ op'[w].ver = v /\ op'[w].section = k + 1
          /\ op'[w].cards = <<>> /\ op'[w].seen = seen
      BY <3>1, <3>3, <3>4 DEF Idle
    <3>6. \A s \in Boards : Visible(s, seen) /\ s < k + 1 => Left(s, v)'
      BY <1>3
    <3>7. Missing(w)'
      BY <3>5 DEF Missing, At
    <3>8. PICK none \in Seq(Nat) : none = <<>>
      BY EmptySeq
    <3>9. Current(none, v)'
      BY <3>8, EmptySeq DEF Current
    <3>10. PICK m \in Nat : m = k + 1
      BY <1>3
    <3>11. Behind(w)'
      BY <3>5, <3>6, <3>8, <3>9, <3>10, MovedOn
    <3> QED  BY <3>7, <3>11
  <2> QED  BY <2>1, <2>2 DEF NextSection
<1>5. w \in Running
  BY OnlyRun
<1>6. Empties(w)'
  BY DEF Empties
<1> QED  BY <1>2, <1>4, <1>5, <1>6, OnlyRunMoves

\* So does the wait for a table, with or without it.
LEMMA WaitTableStaysClean ==
  ASSUME IInv, CleanIInv, clean, NEW w \in Operators, WaitTable(w)
  PROVE  CleanIInv'
<1>1. /\ op[w].pc = "waitTable" /\ UNCHANGED <<server, torn>> /\ op[w] \in RunType
      /\ op[w].pc \notin {"idle", "putBoard"}
  BY RunFacts DEF WaitTable, At, Local
<1>2. CASE GoOn(w, op[w], "findCard")
  <2>1. "findCard" \in Steps
    BY DEF Steps
  <2> QED  BY <1>1, <1>2, <2>1, QuietLook
<1>3. CASE /\ op[w].polls < Polls
           /\ GoOn(w, [op[w] EXCEPT !.polls = @ + 1], "waitTable")
  <2> DEFINE n == op[w].polls + 1
             o == [op[w] EXCEPT !.polls = n]
  <2>1. n \in 0..Polls
    BY <1>3, RunFacts, ConstantsOK DEF ConstantsOK
  <2> HIDE DEF n
  <2>2. /\ o \in RunType /\ o.ver = op[w].ver /\ o.section = op[w].section
        /\ o.cards = op[w].cards /\ o.seen = op[w].seen
    BY <1>1, <2>1, Polling
  <2>3. GoOn(w, o, "waitTable") /\ "waitTable" \in Steps
    BY <1>3 DEF Steps, n
  <2> HIDE DEF o
  <2> QED  BY <1>1, <2>2, <2>3, QuietLook
<1>4. CASE /\ ~(Sections[op[w].section].awaits \subseteq dbs[op[w].db].tables)
           /\ NextSection(w)
  <2>1. PICK v \in Nat, k \in Boards, mine \in Seq(Nat), seen \in SUBSET Tables :
          v = op[w].ver /\ k = op[w].section /\ mine = op[w].cards /\ seen = op[w].seen
    BY RunValues
  <2>2. Tidy /\ Behind(w) /\ Empties(w)
    BY <1>1, OnlyRun
  <2>3. dbs' = dbs /\ cards' = cards /\ boards' = boards /\ torn' = torn
    BY <1>1 DEF server
  <2>4. ~Visible(k, seen)
    <3>1. k # 1 /\ seen \subseteq dbs[op[w].db].tables
      BY <1>1, <2>1, RunFacts DEF RunOK
    <3> QED  BY <1>4, <2>1, <3>1 DEF Visible
  <2>5. \A s \in Boards : Visible(s, seen) /\ s <= k => Left(s, v)
    <3>1. \A s \in Boards : Visible(s, seen) /\ s < k => Left(s, v)
      BY <2>1, <2>2 DEF Behind
    <3>2. \A s \in Boards : s <= k => s < k \/ s = k
      BY <2>1, SectionType
    <3> QED  BY <2>4, <3>1, <3>2
  <2>6. /\ Current(mine, v)' /\ Tidy'
        /\ \A s \in Boards : Visible(s, seen) /\ s <= k => Left(s, v)'
    <3>1. Current(mine, v)
      BY <2>1, <2>2 DEF Behind
    <3>2. Current(mine, v)' /\ Tidy'
      BY <2>2, <2>3, <3>1 DEF Current, Tidy
    <3>3. \A s \in Boards : Left(s, v) => Left(s, v)'
      BY <2>3 DEF Left
    <3> QED  BY <2>5, <3>2, <3>3
  <2>7. \A b \in 1..Len(boards') : boards'[b].cards = <<>> => boards'[b].name \in torn'
    BY <1>1, <2>2, <2>3 DEF Empties, At
  <2> QED  BY <1>1, <1>4, <2>1, <2>6, <2>7, SectionDoneCleanly
<1> QED  BY <1>2, <1>3, <1>4 DEF WaitTable

\* Nor does the look-up of a dashboard: its cards are those the run has just
\* written.
LEMMA FindBoardStaysClean ==
  ASSUME IInv, CleanIInv, clean, NEW w \in Operators, FindBoard(w)
  PROVE  CleanIInv'
<1>1. /\ op[w].pc = "findBoard" /\ UNCHANGED <<server, torn>> /\ op[w] \in RunType
      /\ op[w].pc \notin {"idle", "putBoard"} /\ DOMAIN boards = 1..Len(boards)
  BY RunFacts, LenProperties DEF FindBoard, At, Local, ServerOK
<1>2. CASE /\ \A b \in DOMAIN boards : boards[b].name # op[w].section
           /\ GoOn(w, op[w], "postBoard")
  <2>1. "postBoard" \in Steps
    BY DEF Steps
  <2>2. SameRun(w) /\ op'[w].pc = "postBoard"
    BY <1>1, <1>2, <2>1, GoOnKeepsRun
  <2>3. Missing(w)'
    BY <1>1, <1>2, <2>2 DEF Missing, At, server, SameRun
  <2> QED  BY <1>1, <2>2, <2>3, OnlyRunLooks
<1>3. CASE /\ \E b \in DOMAIN boards : boards[b].name = op[w].section
           /\ NextSection(w)
  <2>1. PICK v \in Nat, k \in Boards, mine \in Seq(Nat), seen \in SUBSET Tables :
          v = op[w].ver /\ k = op[w].section /\ mine = op[w].cards /\ seen = op[w].seen
    BY RunValues
  <2>2. Tidy /\ Behind(w) /\ Empties(w)
    BY <1>1, OnlyRun
  <2>3. /\ dbs' = dbs /\ cards' = cards /\ boards' = boards /\ torn' = torn
    BY <1>1 DEF server
  <2>4. Named(k, v, mine) /\ Len(mine) = Len(Listed(k, v)) /\ Current(mine, v)
    BY <1>1, <2>1, <2>2, RunFacts DEF RunOK, AtBoard, Behind
  <2>5. Left(k, v)
    <3>1. \E b \in 1..Len(boards) : boards[b].name = k
      BY <1>1, <1>3, <2>1
    <3> QED  BY <2>4, <3>1 DEF Left, Named, Current
  <2>6. \A s \in Boards : Visible(s, seen) /\ s <= k => Left(s, v)
    <3>1. \A s \in Boards : Visible(s, seen) /\ s < k => Left(s, v)
      BY <2>1, <2>2 DEF Behind
    <3>2. \A s \in Boards : s <= k => s < k \/ s = k
      BY <2>1, SectionType
    <3> QED  BY <2>5, <3>1, <3>2
  <2>7. /\ Current(mine, v)' /\ Tidy'
        /\ \A s \in Boards : Visible(s, seen) /\ s <= k => Left(s, v)'
    <3>1. Current(mine, v)' /\ Tidy'
      BY <2>2, <2>3, <2>4 DEF Current, Tidy
    <3>2. \A s \in Boards : Left(s, v) => Left(s, v)'
      BY <2>3 DEF Left
    <3> QED  BY <2>6, <3>1, <3>2
  <2>8. \A c \in 1..Len(boards') : boards'[c].cards = <<>> => boards'[c].name \in torn'
    BY <1>1, <2>2, <2>3 DEF Empties, At
  <2> QED  BY <1>1, <1>3, <2>1, <2>7, <2>8, SectionDoneCleanly
<1> QED  BY <1>1, <1>2, <1>3 DEF FindBoard

-----------------------------------------------------------------------------
(* The writes of the only run. *)

\* What each call changes, and that it makes nothing twice.
LEMMA CardCalls ==
  ASSUME IInv, CleanIInv, clean, NEW w \in Operators, Serve(Call(w)),
         op[w].pc \in {"putCard", "postCard"}
  PROVE  /\ dbs' = dbs /\ boards' = boards /\ Tidy'
         /\ \A c \in 1..Len(cards) :
              cards'[c].ver = cards[c].ver \/ cards'[c].ver = op[w].ver
         /\ op[w].pc = "putCard" => cards'[op[w].found].ver = op[w].ver
         /\ op[w].pc = "postCard" => cards'[Len(cards) + 1].ver = op[w].ver
<1>1. /\ cards \in Seq(CardType) /\ Legal(Call(w)) /\ Tidy /\ Missing(w) /\ Lengths
      /\ Body(w).ver = op[w].ver /\ Body(w).name = ThisCard(w)
  BY CallsAreLegal, OnlyRun, LengthsAreNat DEF IInv, ServerOK, Body, Writes
<1>2. CASE op[w].pc = "putCard"
  <2>1. /\ Call(w).call = "putCard" /\ Call(w).body = Body(w)
        /\ Call(w).id = op[w].found
    BY <1>2 DEF Call, Request
  <2>2. /\ Body(w) \in CardType /\ op[w].found \in 1..Len(cards)
        /\ Body(w).name = cards[op[w].found].name
    BY <1>1, <2>1 DEF Legal
  <2>3. dbs' = dbs /\ boards' = boards /\ cards' = [cards EXCEPT ![op[w].found] = Body(w)]
    BY <2>1 DEF Serve
  <2>4. /\ Len(cards') = Len(cards)
        /\ \A c \in 1..Len(cards) :
             cards'[c] = IF c = op[w].found THEN Body(w) ELSE cards[c]
    BY <1>1, <2>2, <2>3, ExceptSeq
  <2>5. \A c \in 1..Len(cards) : cards'[c].name = cards[c].name
    BY <2>2, <2>4
  <2>6. Tidy'
    BY <1>1, <2>3, <2>4, <2>5 DEF Tidy
  <2> QED  BY <1>1, <1>2, <2>2, <2>3, <2>4, <2>6
<1>3. CASE op[w].pc = "postCard"
  <2>1. Call(w).call = "postCard" /\ Call(w).body = Body(w)
    BY <1>3 DEF Call, Request
  <2>2. Body(w) \in CardType
    BY <1>1, <2>1 DEF Legal
  <2>3. dbs' = dbs /\ boards' = boards /\ cards' = Append(cards, Body(w))
    BY <2>1 DEF Serve
  <2>4. /\ Len(cards') = Len(cards) + 1 /\ cards'[Len(cards) + 1] = Body(w)
        /\ \A c \in 1..Len(cards) : cards'[c] = cards[c]
    BY <1>1, <2>2, <2>3, OneMore
  <2>5. \A c \in 1..Len(cards) : cards[c].name # Body(w).name
    BY <1>1, <1>3 DEF Missing, At
  <2>6. \A c \in 1..Len(cards') : c \in 1..Len(cards) \/ c = Len(cards) + 1
    BY <1>1, <2>4 DEF Lengths
  <2>7. \A c, d \in 1..Len(cards') : cards'[c].name = cards'[d].name => c = d
    BY <1>1, <2>4, <2>5, <2>6 DEF Tidy
  <2>8. Tidy'
    BY <1>1, <2>3, <2>7 DEF Tidy
  <2> QED  BY <1>1, <1>3, <2>3, <2>4, <2>8
<1> QED  BY <1>2, <1>3

\* The calls of the setup make no card and no dashboard.
LEMMA SetupCalls ==
  ASSUME IInv, CleanIInv, clean, NEW w \in Operators, Serve(Call(w)),
         op[w].pc \in {"setup", "postDb"}
  PROVE  cards' = cards /\ boards' = boards /\ Tidy'
<1>1. Tidy /\ Missing(w) /\ dbs \in Seq(DbType) /\ Call(w).call = op[w].pc
  BY OnlyRun DEF IInv, ServerOK, Call, Request
<1>2. cards' = cards /\ boards' = boards
  BY <1>1 DEF Serve
<1>3. Len(dbs') <= 1
  <2>1. CASE op[w].pc = "setup"
    BY <1>1, <2>1 DEF Serve, Tidy
  <2>2. CASE op[w].pc = "postDb"
    <3>1. [synced |-> FALSE, tables |-> {}] \in DbType
      BY DEF DbType
    <3>2. dbs' = Append(dbs, [synced |-> FALSE, tables |-> {}])
      BY <1>1, <2>2 DEF Serve
    <3>3. Len(dbs') = Len(dbs) + 1 /\ Len(dbs) = 0
      BY <1>1, <2>2, <3>1, <3>2, OneMore, EmptySeq DEF Missing, At
    <3> QED  BY <3>3
  <2> QED  BY <2>1, <2>2
<1> QED  BY <1>1, <1>2, <1>3 DEF Tidy

\* What the calls on dashboards leave alone, and what a new one is.
LEMMA BoardCalls ==
  ASSUME IInv, CleanIInv, clean, NEW w \in Operators, Serve(Call(w)),
         op[w].pc \in {"postBoard", "putBoard"}
  PROVE  /\ dbs' = dbs /\ cards' = cards /\ Tidy'
         /\ Len(boards) <= Len(boards')
         /\ \A b \in 1..Len(boards) : boards'[b].name = boards[b].name
         /\ op[w].pc = "postBoard" =>
              /\ Len(boards') = Len(boards) + 1
              /\ boards'[Len(boards) + 1].name = op[w].section
              /\ \A b \in 1..Len(boards) : boards'[b] = boards[b]
         /\ op[w].pc = "putBoard" =>
              /\ Len(boards') = Len(boards) /\ op[w].found \in 1..Len(boards)
              /\ boards[op[w].found].name = op[w].section
              /\ boards'[op[w].found].cards = op[w].cards
              /\ \A b \in 1..Len(boards) : b # op[w].found => boards'[b] = boards[b]
<1>1. /\ boards \in Seq(BoardType) /\ Legal(Call(w)) /\ Tidy /\ Missing(w) /\ Lengths
      /\ RunOK(op[w]) /\ op[w].section \in Boards
  BY CallsAreLegal, OnlyRun, LengthsAreNat, RunFacts DEF IInv, ServerOK, Writes
<1>2. CASE op[w].pc = "postBoard"
  <2> DEFINE new == [name |-> op[w].section, cards |-> <<>>]
  <2>1. Call(w).call = "postBoard" /\ Call(w).id = op[w].section
    BY <1>2 DEF Call, Request
  <2>2. dbs' = dbs /\ cards' = cards /\ boards' = Append(boards, new)
    BY <2>1 DEF Serve
  <2>3. new \in BoardType /\ new.name = op[w].section
    BY <1>1, EmptySeq DEF BoardType
  <2> HIDE DEF new
  <2>4. /\ Len(boards') = Len(boards) + 1 /\ boards'[Len(boards) + 1] = new
        /\ \A b \in 1..Len(boards) : boards'[b] = boards[b]
    BY <1>1, <2>2, <2>3, OneMore
  <2>5. \A b \in 1..Len(boards) : boards[b].name # op[w].section
    BY <1>1, <1>2 DEF Missing, At
  <2>6. \A b \in 1..Len(boards') : b \in 1..Len(boards) \/ b = Len(boards) + 1
    BY <1>1, <2>4 DEF Lengths
  <2>7. \A b, d \in 1..Len(boards') : boards'[b].name = boards'[d].name => b = d
    BY <1>1, <2>3, <2>4, <2>5, <2>6 DEF Tidy
  <2>8. Tidy'
    BY <1>1, <2>2, <2>7 DEF Tidy
  <2>9. Len(boards) <= Len(boards')
    BY <1>1, <2>4 DEF Lengths
  <2> QED  BY <1>2, <2>2, <2>3, <2>4, <2>8, <2>9
<1>3. CASE op[w].pc = "putBoard"
  <2> DEFINE f   == op[w].found
             new == [boards[f] EXCEPT !.cards = op[w].cards]
  <2>1. /\ Call(w).call = "putBoard" /\ Call(w).id = f
        /\ Call(w).body = op[w].cards
    BY <1>3 DEF Call, Request
  <2>2. dbs' = dbs /\ cards' = cards /\ boards' = [boards EXCEPT ![f] = new]
    BY <2>1 DEF Serve
  <2>3. f \in 1..Len(boards) /\ boards[f].name = op[w].section
    BY <1>1, <1>3 DEF RunOK
  <2>4. /\ new \in BoardType /\ new.name = boards[f].name /\ new.cards = op[w].cards
    <3>1. boards[f] \in BoardType /\ op[w].cards \in Seq(Nat)
      BY <1>1, <2>3, ElementOfSeq, RunFacts
    <3> QED  BY <3>1 DEF BoardType
  <2> HIDE DEF new, f
  <2>5. /\ Len(boards') = Len(boards)
        /\ \A b \in 1..Len(boards) : boards'[b] = IF b = f THEN new ELSE boards[b]
    BY <1>1, <2>2, <2>3, <2>4, ExceptSeq
  <2>6. \A b \in 1..Len(boards) : boards'[b].name = boards[b].name
    BY <2>4, <2>5
  <2>7. Tidy'
    BY <1>1, <2>2, <2>5, <2>6 DEF Tidy
  <2> QED  BY <1>1, <1>3, <2>2, <2>3, <2>4, <2>5, <2>6, <2>7 DEF f, Lengths
<1> QED  BY <1>2, <1>3

\* Writing cards of one version leaves what is on that version on it.
LEMMA CardsStayCurrent ==
  ASSUME NEW v, \A c \in 1..Len(cards) : cards'[c].ver = cards[c].ver \/ cards'[c].ver = v
  PROVE  \A s, mine : Named(s, v, mine) /\ Current(mine, v) => Current(mine, v)'
BY DEF Named, Current

\* The writing of a card keeps it.
LEMMA WriteCardStaysClean ==
  ASSUME IInv, CleanIInv, clean, NEW w \in Operators, WriteCard(w)
  PROVE  CleanIInv'
<1> DEFINE c    == IF At(w, "putCard") THEN op[w].found ELSE Len(cards) + 1
           mine == Append(op[w].cards, c)
           step == IF Len(mine) = Len(List(w)) THEN "findBoard" ELSE "findCard"
           o    == [op[w] EXCEPT !.cards = mine]
           next == [o EXCEPT !.pc = step]
<1>1. /\ op[w].pc \in {"putCard", "postCard"} /\ Serve(Call(w)) /\ UNCHANGED torn
      /\ op' = [op EXCEPT ![w] = next]
  BY DEF WriteCard, GoOn
<1>2. /\ dbs' = dbs /\ boards' = boards /\ Tidy'
      /\ \A d \in 1..Len(cards) :
           cards'[d].ver = cards[d].ver \/ cards'[d].ver = op[w].ver
      /\ c \in Nat /\ cards'[c].ver = op[w].ver
  BY <1>1, CardCalls, RunFacts DEF At, Lengths
<1>3. w \in Running /\ Behind(w) /\ Empties(w)
  BY <1>1, OnlyRun
<1> HIDE DEF c
<1>4. PICK v \in Nat, k \in Boards, have \in Seq(Nat), m \in Seq(Nat),
           seen \in SUBSET Tables :
        /\ v = op[w].ver /\ k = op[w].section /\ have = op[w].cards /\ m = mine
        /\ seen = op[w].seen
  <2>1. op[w].ver \in Nat /\ op[w].section \in Boards /\ op[w].cards \in Seq(Nat)
    BY RunFacts, ConstantsOK DEF ConstantsOK
  <2>2. mine \in Seq(Nat)
    BY <1>2, <2>1, OneMore
  <2> HIDE DEF mine
  <2> QED  BY <2>1, <2>2, RunFacts
<1>5. /\ Len(m) = Len(have) + 1 /\ m[Len(have) + 1] = c /\ Len(have) \in Nat
      /\ \A i \in 1..Len(have) : m[i] = have[i]
  BY <1>2, <1>4, OneMore
<1> HIDE DEF mine
<1>6. step \in {"findBoard", "findCard"} /\ step \in Steps
  BY DEF Steps
<1> HIDE DEF step
<1>7. o \in RunType /\ o.ver = v /\ o.section = k /\ o.cards = m /\ o.seen = seen
  BY <1>4, RunFacts, Collecting
<1> HIDE DEF o
<1>8. /\ next \in RunType /\ next.pc = step /\ next.ver = v /\ next.section = k
      /\ next.cards = m /\ next.seen = seen
  BY <1>6, <1>7, GoingOn
<1> HIDE DEF next
<1>9. /\ op' \in [Operators -> RunType] /\ op'[w] = next
      /\ \A u \in Operators : u # w => op'[u] = op[u]
  BY <1>1, <1>8 DEF IInv, RunsOK
<1>10. Current(have, v)' /\ (\A s \in Boards : Left(s, v) => Left(s, v)')
  <2>1. Named(k, v, have) /\ Current(have, v)
    BY <1>3, <1>4, RunFacts DEF RunOK, Behind
  <2>2. \A d \in 1..Len(cards) : cards'[d].ver = cards[d].ver \/ cards'[d].ver = v
    BY <1>2, <1>4
  <2>3. Lengths /\ Lengths' /\ Grows
    BY <1>1, RunFacts, CallIsServed DEF Writes
  <2> QED  BY <2>1, <2>2, <2>3, CardsStayCurrent, LeftStays
<1>11. Current(m, v)'
  <2>1. ASSUME NEW i \in 1..Len(m) PROVE cards'[m[i]].ver = v
    <3>1. i \in 1..Len(have) \/ i = Len(have) + 1
      BY <1>5
    <3>2. CASE i \in 1..Len(have)
      BY <1>5, <1>10, <3>2 DEF Current
    <3>3. CASE i = Len(have) + 1
      BY <1>2, <1>4, <1>5, <3>3
    <3> QED  BY <3>1, <3>2, <3>3
  <2> QED  BY <2>1 DEF Current
<1>12. Behind(w)'
  <2>1. \A s \in Boards : Visible(s, seen) /\ s < k => Left(s, v)'
    BY <1>3, <1>4, <1>10 DEF Behind
  <2>2. op'[w].pc # "end"
    BY <1>6, <1>8, <1>9
  <2> QED  BY <1>8, <1>9, <1>11, <2>1, <2>2, MovedOn
<1>13. Missing(w)'
  BY <1>6, <1>8, <1>9 DEF Missing, At
<1>14. Empties(w)'
  BY <1>1, <1>2, <1>3 DEF Empties, At
<1> QED  BY <1>2, <1>3, <1>9, <1>12, <1>13, <1>14, OnlyRunMoves

\* So does the setup of the account.
LEMMA SetupStaysClean ==
  ASSUME IInv, CleanIInv, clean, NEW w \in Operators, Setup(w)
  PROVE  CleanIInv'
<1>1. /\ op[w].pc = "setup" /\ UNCHANGED torn /\ op[w] \in RunType /\ "again" \in Steps
      /\ op[w].pc \notin {"idle", "putBoard"}
  BY RunFacts DEF Setup, At, Steps
<1>2. CASE Serve(Call(w)) /\ GoOn(w, op[w], "again")
  <2>1. cards' = cards /\ boards' = boards /\ Tidy'
    BY <1>1, <1>2, SetupCalls
  <2>2. SameRun(w) /\ op'[w].pc = "again"
    BY <1>1, <1>2, GoOnKeepsRun
  <2>3. w \in Running /\ Behind(w) /\ Empties(w)
    BY <1>1, OnlyRun
  <2>4. op[w].section = 1 /\ op[w].cards = <<>>
    BY <1>1, RunFacts DEF RunOK, Early
  <2>5. op'[w].section = 1 /\ op'[w].cards = <<>>
    BY <2>2, <2>4 DEF SameRun
  <2>7. Missing(w)' /\ Behind(w)'
    BY <2>2, <2>5, EmptySeq, SectionType DEF Missing, Behind, At, Current
  <2>8. Empties(w)'
    BY <1>1, <2>1, <2>3 DEF Empties, At
  <2> QED  BY <2>1, <2>2, <2>3, <2>7, <2>8, OnlyRunMoves DEF SameRun
<1>3. CASE GoOn(w, op[w], "again") /\ UNCHANGED server
  BY <1>1, <1>3, QuietLook
<1>4. CASE Over(w) /\ UNCHANGED server
  BY <1>1, <1>4, QuietStop
<1> QED  BY <1>2, <1>3, <1>4 DEF Setup

\* So does the new connection.
LEMMA PostDbStaysClean ==
  ASSUME IInv, CleanIInv, clean, NEW w \in Operators, PostDb(w)
  PROVE  CleanIInv'
<1>1. /\ op[w].pc = "postDb" /\ UNCHANGED torn /\ op[w] \in RunType /\ "pollDb" \in Steps
      /\ Serve(Call(w)) /\ op[w].section = 1 /\ op[w].cards = <<>>
  BY RunFacts DEF PostDb, At, Steps, RunOK, Early
<1>2. cards' = cards /\ boards' = boards /\ Tidy'
  BY <1>1, SetupCalls
<1> DEFINE d == Len(dbs) + 1
           o == [op[w] EXCEPT !.db = d]
<1>3. d \in Nat
  BY RunFacts DEF Lengths
<1> HIDE DEF d
<1>4. /\ o \in RunType /\ o.ver = op[w].ver /\ o.section = op[w].section
      /\ o.cards = op[w].cards /\ o.seen = op[w].seen
  BY <1>1, <1>3, Connecting
<1>5. GoOn(w, o, "pollDb")
  BY DEF PostDb, d
<1> HIDE DEF o
<1>6. SameRun(w) /\ op'[w].pc = "pollDb"
  BY <1>1, <1>4, <1>5, GoOnKeepsRun
<1>7. w \in Running /\ Empties(w)
  BY <1>1, OnlyRun
<1>8. Missing(w)' /\ Behind(w)'
  BY <1>1, <1>6, EmptySeq, SectionType DEF Missing, Behind, At, Current, SameRun
<1>9. Empties(w)'
  BY <1>1, <1>2, <1>7 DEF Empties, At
<1> QED  BY <1>2, <1>6, <1>7, <1>8, <1>9, OnlyRunMoves DEF SameRun

\* So does the new dashboard: there was none of its name.
LEMMA PostBoardStaysClean ==
  ASSUME IInv, CleanIInv, clean, NEW w \in Operators, PostBoard(w)
  PROVE  CleanIInv'
<1>1. /\ op[w].pc = "postBoard" /\ UNCHANGED torn /\ op[w] \in RunType
      /\ "putBoard" \in Steps /\ Serve(Call(w)) /\ Lengths
  BY RunFacts DEF PostBoard, At, Steps
<1>2. /\ cards' = cards /\ Tidy' /\ Len(boards') = Len(boards) + 1
      /\ boards'[Len(boards) + 1].name = op[w].section
      /\ \A b \in 1..Len(boards) : boards'[b] = boards[b]
  BY <1>1, BoardCalls
<1>3. w \in Running /\ Behind(w) /\ Empties(w)
  BY <1>1, OnlyRun
<1> DEFINE f == Len(boards) + 1
           o == [op[w] EXCEPT !.found = f]
<1>4. f \in Nat /\ (\A b \in 1..Len(boards') : b \in 1..Len(boards) \/ b = f)
      /\ (\A b \in 1..Len(boards) : b \in 1..Len(boards'))
  BY <1>1, <1>2 DEF Lengths
<1>5. GoOn(w, o, "putBoard")
  BY DEF PostBoard
<1> HIDE DEF f
<1>6. /\ o \in RunType /\ o.ver = op[w].ver /\ o.section = op[w].section
      /\ o.cards = op[w].cards /\ o.seen = op[w].seen /\ o.found = f
  BY <1>1, <1>4, Finding
<1> HIDE DEF o
<1>7. SameRun(w) /\ op'[w].pc = "putBoard"
  BY <1>1, <1>5, <1>6, GoOnKeepsRun
<1>8. op'[w].found = f
  <2>1. op'[w] = [o EXCEPT !.pc = "putBoard"]
    BY <1>5 DEF GoOn, IInv, RunsOK
  <2> QED  BY <1>1, <1>6, <2>1, GoingOn
<1>9. PICK v \in Nat, k \in Boards, mine \in Seq(Nat), seen \in SUBSET Tables :
        v = op[w].ver /\ k = op[w].section /\ mine = op[w].cards /\ seen = op[w].seen
  BY RunValues
<1>10. Current(mine, v)'
  BY <1>2, <1>3, <1>9 DEF Behind, Current
<1>11. ASSUME NEW s \in Boards, Visible(s, seen), s < k PROVE Left(s, v)'
  <2>1. Left(s, v)
    BY <1>3, <1>9, <1>11 DEF Behind
  <2>2. Lengths /\ Lengths' /\ Grows
    BY <1>1, RunFacts, CallIsServed DEF Writes
  <2> QED  BY <1>2, <2>1, <2>2, LeftStays
<1>12. Missing(w)' /\ Behind(w)'
  <2>1. /\ op'[w].ver = v /\ op'[w].section = k /\ op'[w].cards = mine
        /\ op'[w].seen = seen
    <3>1. op'[w] = [o EXCEPT !.pc = "putBoard"]
      BY <1>5 DEF GoOn, IInv, RunsOK
    <3> QED  BY <1>1, <1>6, <1>9, <3>1, GoingOn
  <2>2. Missing(w)'
    BY <1>7 DEF Missing, At
  <2>3. Behind(w)'
    BY <1>7, <1>10, <1>11, <2>1, MovedOn
  <2> QED  BY <2>2, <2>3
<1>13. Empties(w)'
  <2>1. ASSUME NEW b \in 1..Len(boards'), boards'[b].cards = <<>>
        PROVE  boards'[b].name \in torn' \/ (At(w, "putBoard")' /\ op'[w].found = b)
    <3>1. CASE b = f
      BY <1>7, <1>8, <3>1 DEF At
    <3>2. CASE b \in 1..Len(boards)
      BY <1>1, <1>2, <1>3, <2>1, <3>2 DEF Empties, At
    <3> QED  BY <1>4, <3>1, <3>2
  <2> QED  BY <2>1 DEF Empties
<1> QED  BY <1>2, <1>3, <1>7, <1>12, <1>13, OnlyRunMoves DEF SameRun

\* The dashboard at hand gets its cards, the others are as they were.
LEMMA PutBoardStaysClean ==
  ASSUME IInv, CleanIInv, clean, NEW w \in Operators, PutBoard(w)
  PROVE  CleanIInv'
<1>1. /\ op[w].pc = "putBoard" /\ UNCHANGED torn /\ Serve(Call(w)) /\ NextSection(w)
      /\ Len(op[w].cards) = Len(Listed(op[w].section, op[w].ver))
  BY RunFacts DEF PutBoard, At, RunOK, AtBoard
<1>2. PICK v \in Nat, k \in Boards, mine \in Seq(Nat), seen \in SUBSET Tables :
        v = op[w].ver /\ k = op[w].section /\ mine = op[w].cards /\ seen = op[w].seen
  BY RunValues
<1>2a. PICK f \in Nat : f = op[w].found
  BY RunFacts
<1>3. /\ cards' = cards /\ Tidy' /\ Len(boards') = Len(boards) /\ f \in 1..Len(boards)
      /\ boards[f].name = k /\ boards'[f].cards = mine
      /\ \A b \in 1..Len(boards) : boards'[b].name = boards[b].name
      /\ \A b \in 1..Len(boards) : b # f => boards'[b] = boards[b]
  BY <1>1, <1>2, <1>2a, BoardCalls
<1>4. Behind(w) /\ Empties(w)
  BY <1>1, OnlyRun
<1>5. Current(mine, v)'
  BY <1>2, <1>3, <1>4 DEF Behind, Current
<1>6. mine # <<>>
  <2>1. v \in 1..MaxCode
    BY <1>1, <1>2, RunVersion
  <2>2. Len(mine) = Len(Listed(k, v))
    BY <1>1, <1>2
  <2> QED  BY <2>1, <2>2, SectionType, EmptySeq
<1>7. Left(k, v)'
  <2>0. RunOK(op[w]) /\ Current(op[w].cards, op[w].ver)
    BY <1>4, RunFacts DEF Behind
  <2>1. Named(k, v, mine) /\ Len(mine) = Len(Listed(k, v)) /\ Current(mine, v)
    BY <1>1, <1>2, <2>0 DEF RunOK
  <2>2. \A i \in 1..Len(Listed(k, v)) :
          \E c \in 1..Len(cards') :
            cards'[c].name = <<k, Listed(k, v)[i]>> /\ cards'[c].ver = v
    <3>1. ASSUME NEW i \in 1..Len(mine)
          PROVE  /\ mine[i] \in 1..Len(cards')
                 /\ cards'[mine[i]].name = <<k, Listed(k, v)[i]>> /\ cards'[mine[i]].ver = v
      BY <1>3, <2>1 DEF Named, Current
    <3> QED  BY <2>1, <3>1
  <2>3. f \in 1..Len(boards') /\ boards'[f].name = k
    BY <1>3
  <2> QED  BY <2>2, <2>3 DEF Left
<1>8. ASSUME NEW s \in Boards, Visible(s, seen), s < k PROVE Left(s, v)'
  <2>1. Left(s, v)
    BY <1>2, <1>4, <1>8 DEF Behind
  <2>2. Lengths /\ Lengths' /\ Grows
    BY <1>1, RunFacts, CallIsServed DEF Writes
  <2> QED  BY <1>3, <2>1, <2>2, LeftStays
<1>9. \A s \in Boards : Visible(s, seen) /\ s <= k => Left(s, v)'
  <2>1. \A s \in Boards : s <= k => s < k \/ s = k
    BY <1>2, SectionType
  <2> QED  BY <1>7, <1>8, <2>1
<1>10. ASSUME NEW b \in 1..Len(boards'), boards'[b].cards = <<>>
       PROVE  boards'[b].name \in torn'
  <2>1. b \in 1..Len(boards) /\ b # f /\ boards'[b] = boards[b]
    BY <1>3, <1>6, <1>10
  <2> QED  BY <1>1, <1>2a, <1>4, <1>10, <2>1 DEF Empties
<1> QED  BY <1>1, <1>2, <1>3, <1>5, <1>9, <1>10, SectionDoneCleanly

\* Whoever dies between the POST and the PUT of a dashboard tears it.
LEMMA DiesStaysClean ==
  ASSUME IInv, CleanIInv, clean, NEW w \in Operators, Dies(w)
  PROVE  CleanIInv'
<1>1. /\ op[w].pc \in Steps /\ op[w].pc # "idle" /\ Over(w) /\ Lengths /\ RunOK(op[w])
      /\ torn \subseteq torn'
  BY RunFacts DEF Dies
<1>2. w \in Running /\ Tidy /\ Empties(w)
  BY <1>1, OnlyRun
<1>3. Idle \in RunType /\ Idle.pc = "idle" /\ Idle.section = 1 /\ Idle.cards = <<>>
  BY IdleIsOK DEF Idle
<1>4. /\ op' \in [Operators -> RunType] /\ op'[w] = Idle
      /\ \A v \in Operators : v # w => op'[v] = op[v]
  BY <1>1, <1>3 DEF Over, IInv, RunsOK
<1>5. Missing(w)' /\ Behind(w)'
  BY <1>3, <1>4, EmptySeq, SectionType DEF Missing, Behind, At, Current
<1>6. ASSUME Tidy', \A b \in 1..Len(boards') :
                      boards'[b].cards = <<>> => boards'[b].name \in torn'
      PROVE  CleanIInv'
  <2>1. Empties(w)'
    BY <1>6 DEF Empties
  <2> QED  BY <1>2, <1>4, <1>5, <1>6, <2>1, OnlyRunMoves
<1>7. CASE /\ UNCHANGED server
           /\ torn' = IF At(w, "putBoard") THEN torn \cup {op[w].section} ELSE torn
  <2>1. Tidy' /\ boards' = boards
    BY <1>2, <1>7 DEF Tidy, server
  <2>2. \A b \in 1..Len(boards) : boards[b].cards = <<>> => boards[b].name \in torn'
    BY <1>1, <1>2, <1>7 DEF Empties, At, RunOK
  <2> QED  BY <1>6, <2>1, <2>2
<1>8. CASE /\ op[w].pc \in Writes /\ Serve(Call(w))
           /\ torn' = IF At(w, "postBoard") THEN torn \cup {op[w].section} ELSE torn
  <2>0. ASSUME op[w].pc # "putBoard"
        PROVE  \A b \in 1..Len(boards) : boards[b].cards = <<>> => boards[b].name \in torn'
    BY <1>1, <1>2, <2>0 DEF Empties, At
  <2>1. CASE op[w].pc \in {"setup", "postDb"}
    BY <1>6, <1>8, <2>0, <2>1, SetupCalls
  <2>2. CASE op[w].pc \in {"putCard", "postCard"}
    BY <1>6, <1>8, <2>0, <2>2, CardCalls
  <2>3. CASE op[w].pc = "postBoard"
    <3>1. /\ Tidy' /\ Len(boards') = Len(boards) + 1
          /\ boards'[Len(boards) + 1].name = op[w].section
          /\ \A b \in 1..Len(boards) : boards'[b] = boards[b]
      BY <1>8, <2>3, BoardCalls
    <3>2. \A b \in 1..Len(boards') : b \in 1..Len(boards) \/ b = Len(boards) + 1
      BY <1>1, <3>1 DEF Lengths
    <3>3. op[w].section \in torn'
      BY <1>8, <2>3 DEF At
    <3> QED  BY <1>6, <2>0, <2>3, <3>1, <3>2, <3>3
  <2>4. CASE op[w].pc = "putBoard"
    <3>1. /\ Tidy' /\ Len(boards') = Len(boards) /\ op[w].found \in 1..Len(boards)
          /\ boards'[op[w].found].cards = op[w].cards
          /\ \A b \in 1..Len(boards) : b # op[w].found => boards'[b] = boards[b]
      BY <1>8, <2>4, BoardCalls
    <3>2. op[w].cards # <<>>
      <4>1. op[w].ver \in 1..MaxCode /\ op[w].section \in Boards
        BY <1>1, RunFacts, RunVersion
      <4>2. Len(op[w].cards) = Len(Listed(op[w].section, op[w].ver))
        BY <2>4, RunFacts DEF RunOK, AtBoard
      <4> QED  BY <4>1, <4>2, SectionType, EmptySeq
    <3>3. ASSUME NEW b \in 1..Len(boards'), boards'[b].cards = <<>>
          PROVE  boards'[b].name \in torn'
      <4>1. b \in 1..Len(boards) /\ b # op[w].found /\ boards'[b] = boards[b]
        BY <3>1, <3>2, <3>3
      <4>2. boards[b].name \in torn
        BY <1>2, <3>3, <4>1 DEF Empties
      <4> QED  BY <1>1, <4>1, <4>2
    <3> QED  BY <1>6, <3>1, <3>3
  <2> QED  BY <1>8, <2>1, <2>2, <2>3, <2>4 DEF Writes
<1> QED  BY <1>7, <1>8 DEF Dies

\* So does the start of a run that is alone.
LEMMA StartStaysClean ==
  ASSUME IInv, CleanIInv, clean', NEW w \in Operators, Start(w)
  PROVE  CleanIInv'
<1>1. clean /\ Running = {} /\ UNCHANGED <<server, torn>>
  BY DEF Start
<1>2. PICK v \in 1..MaxCode :
        op' = [op EXCEPT ![w] = [Idle EXCEPT !.pc = "health", !.ver = v]]
  BY DEF Start
<1>3. op'[w] = [Idle EXCEPT !.pc = "health", !.ver = v]
  BY <1>2 DEF IInv, RunsOK
<1>4. PICK r \in RunType : r = Idle
  BY IdleIsOK
<1>5. op'[w].pc = "health" /\ op'[w].section = 1 /\ op'[w].cards = <<>>
  <2>1. r.section = 1 /\ r.cards = <<>>
    BY <1>4 DEF Idle
  <2> DEFINE next == [r EXCEPT !.pc = "health", !.ver = v]
  <2>2. next.pc = "health" /\ next.section = r.section /\ next.cards = r.cards
    BY ONLY <1>4 DEF RunType
  <2>3. op'[w] = next
    BY <1>3, <1>4
  <2> HIDE DEF next
  <2> QED  BY <2>1, <2>2, <2>3
<1>6. \A u \in Operators : op[u].pc = "idle" /\ (u # w => op'[u] = op[u])
  BY <1>1, <1>2 DEF Running, IInv, RunsOK
<1>7. Running' = {w}
  BY <1>5, <1>6 DEF Running
<1>8. Tidy' /\ Empties(w)'
  BY <1>1 DEF CleanIInv, Tidy, Empties, server
<1>9. Missing(w)' /\ Behind(w)'
  BY <1>5, EmptySeq, SectionType DEF Missing, Behind, At, Current
<1> QED  BY <1>7, <1>8, <1>9 DEF CleanIInv

\* So does Metabase's own synchronisation.
LEMMA SyncStaysClean == ASSUME IInv, CleanIInv, Sync PROVE CleanIInv'
<1>1. PICK d \in DOMAIN dbs, more \in SUBSET Tables :
        dbs' = [dbs EXCEPT ![d] = [synced |-> TRUE, tables |-> @.tables \cup more]]
  BY DEF Sync
<1>2. /\ dbs \in Seq(DbType)
      /\ cards' = cards /\ boards' = boards /\ op' = op /\ clean' = clean /\ torn' = torn
  BY DEF IInv, ServerOK, Sync
<1>3. d \in 1..Len(dbs) /\ dbs[d] \in DbType /\ Len(dbs) \in Nat
  BY <1>1, <1>2, LenProperties, ElementOfSeq
<1> DEFINE new == [synced |-> TRUE, tables |-> dbs[d].tables \cup more]
<1>4. new \in DbType
  BY <1>1, <1>3 DEF DbType
<1>5. dbs' = [dbs EXCEPT ![d] = new]
  BY <1>1
<1> HIDE DEF new
<1>6. Len(dbs') = Len(dbs) /\ dbs # <<>>
  BY <1>2, <1>3, <1>4, <1>5, ExceptSeq, EmptySeq
<1>7. Tidy => Tidy'
  BY <1>2, <1>6 DEF Tidy
<1>8. Running' = Running
  BY <1>2 DEF Running
<1>9. ASSUME NEW w \in Running, Missing(w), Behind(w), Empties(w)
      PROVE  Missing(w)' /\ Behind(w)' /\ Empties(w)'
  <2>1. Missing(w)'
    BY <1>2, <1>6, <1>9 DEF Missing, At, ThisCard, List
  <2>2. Empties(w)'
    BY <1>2, <1>9 DEF Empties, At
  <2>3. Behind(w)'
    BY <1>2, <1>9 DEF Behind, At, Current, Left, Visible
  <2> QED  BY <2>1, <2>2, <2>3
<1> QED  BY <1>2, <1>7, <1>8, <1>9 DEF CleanIInv

\* An empty Metabase is clean.
LEMMA CleanHolds == Init => CleanIInv
<1> SUFFICES ASSUME Init PROVE CleanIInv
  OBVIOUS
<1>1. Len(dbs) = 0 /\ Len(cards) = 0 /\ Len(boards) = 0
  BY EmptySeq DEF Init
<1>2. Running = {}
  BY DEF Init, Running, Idle
<1> QED  BY <1>1, <1>2 DEF CleanIInv, Tidy

\* Every step keeps it.
LEMMA NextStaysClean == IInv /\ CleanIInv /\ [Next]_vars => CleanIInv'
<1> SUFFICES ASSUME IInv, CleanIInv, [Next]_vars, clean' PROVE CleanIInv'
  BY DEF CleanIInv
<1>1. CASE UNCHANGED vars
  <2>1. /\ dbs' = dbs /\ cards' = cards /\ boards' = boards /\ op' = op
        /\ clean' = clean /\ torn' = torn
    BY <1>1 DEF vars, server
  <2>2. Running' = Running /\ (Tidy => Tidy')
    BY <2>1 DEF Running, Tidy
  <2>3. ASSUME NEW w \in Running, Missing(w), Behind(w), Empties(w)
        PROVE  Missing(w)' /\ Behind(w)' /\ Empties(w)'
    <3>1. Missing(w)'
      BY <2>1, <2>3 DEF Missing, At, ThisCard, List
    <3>2. Empties(w)'
      BY <2>1, <2>3 DEF Empties, At
    <3>3. Behind(w)'
      BY <2>1, <2>3 DEF Behind, At, Current, Left, Visible
    <3> QED  BY <3>1, <3>2, <3>3
  <2> QED  BY <2>1, <2>2, <2>3 DEF CleanIInv
<1>2. CASE Sync
  BY <1>2, SyncStaysClean
<1>3. CASE LateCall
  BY <1>3 DEF LateCall
<1>4. ASSUME NEW w \in Operators, Start(w) \/ Step(w) \/ Dies(w) PROVE CleanIInv'
  <2>1. CASE Start(w)
    BY <2>1, StartStaysClean
  <2>2. CASE Dies(w)
    <3>1. clean
      BY <2>2 DEF Dies
    <3> QED  BY <2>2, <3>1, DiesStaysClean
  <2>3. CASE WaitHealthy(w) \/ Login(w) \/ LoginAgain(w) \/ PollDb(w) \/ CheckDb(w)
    <3>1. clean
      BY <2>3 DEF WaitHealthy, Login, LoginAgain, PollDb, CheckDb, Local
    <3> QED  BY <2>3, <3>1, EarlyLooksStayClean
  <2>4. CASE Setup(w) \/ FindDb(w) \/ PostDb(w)
    <3>1. clean
      BY <2>4 DEF Setup, FindDb, PostDb, Local
    <3> QED  BY <2>4, <3>1, SetupStaysClean, FindDbStaysClean, PostDbStaysClean
  <2>5. CASE WaitTable(w) \/ FindCard(w) \/ FindBoard(w)
    <3>1. clean
      BY <2>5 DEF WaitTable, FindCard, FindBoard, Local
    <3> QED  BY <2>5, <3>1, WaitTableStaysClean, FindCardStaysClean, FindBoardStaysClean
  <2>6. CASE WriteCard(w) \/ PostBoard(w) \/ PutBoard(w)
    <3>1. clean
      BY <2>6 DEF WriteCard, PostBoard, PutBoard
    <3> QED  BY <2>6, <3>1, WriteCardStaysClean, PostBoardStaysClean, PutBoardStaysClean
  <2>7. CASE End(w)
    <3>1. /\ clean /\ Over(w) /\ UNCHANGED <<server, torn>>
          /\ op[w].pc \notin {"idle", "putBoard"}
      BY <2>7 DEF End, Local, At
    <3> QED  BY <3>1, QuietStop
  <2> QED  BY <1>4, <2>1, <2>2, <2>3, <2>4, <2>5, <2>6, <2>7 DEF Step
<1> QED  BY <1>1, <1>2, <1>3, <1>4 DEF Next

\* While runs do not meet, one run at a time brings Metabase in order, at all times.
THEOREM CleanInvariance == Spec => []CleanIInv
BY Invariance, CleanHolds, NextStaysClean, PTL DEF Spec

\* Running scripts/metabase_bootstrap.py over and over makes nothing twice,
\* wherever its runs die: it takes two runs at once, or a call that lands
\* after its client gave up.
THEOREM RerunsMakeNothingTwice == Spec => []NothingIsMadeTwice
<1>1. IInv /\ CleanIInv => NothingIsMadeTwice
  <2> SUFFICES ASSUME IInv, CleanIInv, clean PROVE NothingIsMadeTwice
    BY DEF NothingIsMadeTwice
  <2>1. DOMAIN cards = 1..Len(cards) /\ DOMAIN boards = 1..Len(boards)
    BY LenProperties DEF IInv, ServerOK
  <2> QED  BY <2>1 DEF CleanIInv, Tidy, NothingIsMadeTwice
<1> QED  BY <1>1, Invariance, CleanInvariance, PTL

\* A run that gets to its end leaves the first dashboard, and every later one
\* whose tables were visible when it took its connection, with all cards of its
\* own version made and on its SQL, whatever earlier versions and dead runs left
\* there, and none of them empty but those that were torn.
THEOREM RunsRepairScreens == Spec => []RunLeavesItsScreens
<1>1. IInv /\ CleanIInv => RunLeavesItsScreens
  <2>0. SUFFICES
          ASSUME IInv, CleanIInv, clean, NEW w \in Operators, At(w, "end"),
                 NEW s \in Boards, s = 1 \/ Sections[s].awaits \subseteq op[w].seen
          PROVE  /\ \A n \in ToSet(Listed(s, op[w].ver)) :
                      \E c \in DOMAIN cards : cards[c].name = <<s, n>>
                 /\ \A c \in Mine(s, op[w].ver) : cards[c].ver = op[w].ver
                 /\ \E b \in DOMAIN boards : boards[b].name = s
                 /\ \A b \in DOMAIN boards :
                      boards[b].name = s /\ boards[b].cards = <<>> => s \in torn
    BY DEF RunLeavesItsScreens
  <2>1. op[w].pc # "idle" /\ op[w].pc # "putBoard"
    BY <2>0 DEF At
  <2>2. Tidy /\ Behind(w) /\ Empties(w)
    BY <2>0, <2>1, OnlyRun
  <2>3. PICK v \in 1..MaxCode : v = op[w].ver
    BY <2>0, <2>1, RunVersion
  <2>4. /\ DOMAIN cards = 1..Len(cards) /\ DOMAIN boards = 1..Len(boards)
        /\ DOMAIN Listed(s, v) = 1..Len(Listed(s, v))
    <3>1. Listed(s, v) \in Seq(Nat)
      BY SectionType
    <3> QED  BY <3>1, LenProperties DEF IInv, ServerOK
  <2>5. Left(s, v)
    BY <2>0, <2>2, <2>3 DEF Behind, Visible
  <2>6. ASSUME NEW n \in ToSet(Listed(s, v))
        PROVE  \E c \in 1..Len(cards) : cards[c].name = <<s, n>> /\ cards[c].ver = v
    <3>1. PICK i \in 1..Len(Listed(s, v)) : n = Listed(s, v)[i]
      BY <2>4 DEF ToSet
    <3> QED  BY <2>5, <3>1 DEF Left
  <2>7. ASSUME NEW c \in Mine(s, v) PROVE cards[c].ver = v
    <3>1. PICK n \in ToSet(Listed(s, v)) : c \in 1..Len(cards) /\ cards[c].name = <<s, n>>
      BY <2>4 DEF Mine
    <3>2. PICK d \in 1..Len(cards) : cards[d].name = <<s, n>> /\ cards[d].ver = v
      BY <2>6
    <3>3. c = d
      BY <2>2, <3>1, <3>2 DEF Tidy
    <3> QED  BY <3>2, <3>3
  <2>8. \E b \in 1..Len(boards) : boards[b].name = s
    BY <2>5 DEF Left
  <2>9. \A b \in 1..Len(boards) : boards[b].cards = <<>> => boards[b].name \in torn
    BY <2>1, <2>2 DEF Empties, At
  <2> QED  BY <2>3, <2>4, <2>6, <2>7, <2>8, <2>9
<1> QED  BY <1>1, Invariance, CleanInvariance, PTL
=============================================================================
