-------------------------- MODULE MetabaseBootstrap --------------------------
(***************************************************************************)
(* scripts/metabase_bootstrap.py: the dashboards are made by calls to the  *)
(* API of Metabase, over and over and by anyone, each thing being looked   *)
(* up by its name and made when there is none.  Nothing joins the calls of *)
(* a run: it may die after any of them, a call whose answer it gave up     *)
(* waiting for may still be carried out, and two operators may run it at   *)
(* once.                                                                   *)
(*                                                                         *)
(* Metabase's ids are positions: a POST appends, and several things may    *)
(* have one name.  A card's SQL and layout are abstracted to the version   *)
(* of the script that wrote them, and each version has its own list of     *)
(* cards for a dashboard; a table is visible in Metabase once it is in the *)
(* lake and the connection has been synchronised.                          *)
(***************************************************************************)
EXTENDS Integers, Sequences, FiniteSets, SequencesExt

CONSTANTS
  Operators,  \* who runs the script
  Sections,   \* the dashboards in order: the tables the script looks for before
              \* it makes one, and the cards each version of the script gives it
  Polls,      \* range(60), range(30) and timeout_s: looks before giving up
  MaxRuns,    \* bound: runs of the script
  MaxCode,    \* bound: versions of the script
  MaxLate     \* bound: calls that outlive their client

Boards == DOMAIN Sections
Tables == UNION {Sections[s].awaits : s \in Boards}

ASSUME ConstantsOK ==
  /\ Sections \in Seq([awaits : SUBSET Tables,
                       cards  : [1..MaxCode -> Seq(Nat) \ {<<>>}]])
  /\ Sections # <<>>
  /\ Polls \in Nat /\ MaxRuns \in Nat /\ MaxCode \in Nat \ {0} /\ MaxLate \in Nat

VARIABLES
  code,    \* the newest version of the script that has been run
  runs,    \* runs started so far
  \* Metabase
  setup,   \* its administrator exists
  dbs,     \* connections to the lake: [synced, tables]
  cards,   \* questions: [name, db, ver]; the name is <<section, number>>
  boards,  \* dashboards: [name, cards]; the name is the section
  late,    \* calls under way whose client is gone
  \* the script
  op,      \* each operator's run; "seen" is history: the tables that were visible
           \* when the run took its connection
  \* history
  clean,   \* no two runs have met, and no late call has landed
  torn     \* dashboards whose maker died between POST and PUT

server == <<setup, dbs, cards, boards>>
vars   == <<code, runs, server, late, op, clean, torn>>

Idle == [pc |-> "idle", ver |-> 0, section |-> 1, polls |-> 0, db |-> 0,
         seen |-> {}, cards |-> <<>>, found |-> 0]

Steps == {"idle", "health", "login", "setup", "again", "findDb", "postDb",
          "pollDb", "checkDb", "waitTable", "findCard", "putCard", "postCard",
          "findBoard", "postBoard", "putBoard", "end"}

\* The cards that version v of the script gives dashboard s, by name.
Listed(s, v) == Sections[s].cards[v]

CardNames == Boards \X Nat
CardBody  == [name : CardNames, db : 1..Len(dbs), ver : 1..MaxCode]

TypeOK ==
  /\ code \in 0..MaxCode /\ runs \in 0..MaxRuns
  /\ setup \in BOOLEAN
  /\ dbs \in Seq([synced : BOOLEAN, tables : SUBSET Tables])
  /\ cards \in Seq(CardBody)
  /\ boards \in Seq([name : Boards, cards : Seq(DOMAIN cards)])
  /\ \A w \in Operators :
       /\ op[w].pc \in Steps
       /\ op[w].ver \in 0..MaxCode /\ op[w].polls \in 0..Polls
       /\ op[w].section \in Boards
       /\ op[w].db \in 0..Len(dbs) /\ op[w].seen \subseteq Tables
       /\ op[w].cards \in Seq(DOMAIN cards) /\ op[w].found \in 0..(Len(cards) + Len(boards))
  /\ clean \in BOOLEAN /\ torn \subseteq Boards

Init ==
  /\ code = 0 /\ runs = 0
  /\ setup = FALSE /\ dbs = <<>> /\ cards = <<>> /\ boards = <<>>
  /\ late = {}
  /\ op = [w \in Operators |-> Idle]
  /\ clean = TRUE /\ torn = {}

Running == {w \in Operators : op[w].pc # "idle"}

-----------------------------------------------------------------------------
(* What the world does. *)

\* sync_schema, or the synchronisation Metabase does on its own: it shows what
\* has been published by then, in a lake that never loses a table.
Sync ==
  /\ \E d \in DOMAIN dbs, more \in SUBSET Tables :
       dbs' = [dbs EXCEPT ![d] = [synced |-> TRUE, tables |-> @.tables \cup more]]
  /\ UNCHANGED <<code, runs, setup, cards, boards, late, op, clean, torn>>

-----------------------------------------------------------------------------
(* The calls that write, as Metabase carries them out. *)

Request(call, id, body) == [call |-> call, id |-> id, body |-> body]

Serve(q) ==
  /\ setup' = (setup \/ q.call = "setup")
  /\ dbs' = IF q.call = "postDb"
              THEN Append(dbs, [synced |-> FALSE, tables |-> {}]) ELSE dbs
  /\ cards' = CASE q.call = "postCard" -> Append(cards, q.body)
                [] q.call = "putCard"  -> [cards EXCEPT ![q.id] = q.body]
                [] OTHER               -> cards
  /\ boards' = CASE q.call = "postBoard" ->
                      Append(boards, [name |-> q.id, cards |-> <<>>])
                 [] q.call = "putBoard" ->
                      [boards EXCEPT ![q.id].cards = q.body]
                 [] OTHER -> boards

\* The card a run is at, as its version of the script defines it.
List(w)     == Listed(op[w].section, op[w].ver)
ThisCard(w) == <<op[w].section, List(w)[Len(op[w].cards) + 1]>>
Body(w)     == [name |-> ThisCard(w), db |-> op[w].db, ver |-> op[w].ver]

Writes == {"setup", "postDb", "putCard", "postCard", "postBoard", "putBoard"}

\* The call a run makes at a step that writes.
Call(w) ==
  CASE op[w].pc \in {"setup", "postDb"} -> Request(op[w].pc, 0, <<>>)
    [] op[w].pc = "postCard"  -> Request("postCard", 0, Body(w))
    [] op[w].pc = "putCard"   -> Request("putCard", op[w].found, Body(w))
    [] op[w].pc = "postBoard" -> Request("postBoard", op[w].section, <<>>)
    [] op[w].pc = "putBoard"  -> Request("putBoard", op[w].found, op[w].cards)

-----------------------------------------------------------------------------
(* A run of the script. *)

At(w, step) == op[w].pc = step

\* The run goes on at another step, with some of its variables changed.
GoOn(w, o, step) == op' = [op EXCEPT ![w] = [o EXCEPT !.pc = step]]

Over(w) == op' = [op EXCEPT ![w] = Idle]

Local == UNCHANGED <<code, runs, server, late, clean, torn>>

\* The version of the last run, or the next one; rivals have the same.
Start(w) ==
  /\ At(w, "idle")
  /\ runs < MaxRuns
  /\ runs' = runs + 1
  /\ \E v \in (IF Running = {} THEN {code, code + 1} ELSE {code}) \cap 1..MaxCode :
       /\ code' = v
       /\ op' = [op EXCEPT ![w] = [Idle EXCEPT !.pc = "health", !.ver = v]]
  /\ clean' = (clean /\ Running = {})
  /\ UNCHANGED <<server, late, torn>>

\* wait_healthy looks until Metabase answers or its time is up.
WaitHealthy(w) ==
  /\ At(w, "health")
  /\ \/ GoOn(w, [op[w] EXCEPT !.polls = 0], "login")
     \/ /\ op[w].polls < Polls
        /\ GoOn(w, [op[w] EXCEPT !.polls = @ + 1], "health")
     \/ /\ op[w].polls = Polls
        /\ Over(w)
  /\ Local

\* Any error of the login, not only a missing account, leads to the setup.
Login(w) ==
  /\ At(w, "login")
  /\ \/ setup /\ GoOn(w, op[w], "findDb")
     \/ GoOn(w, op[w], "setup")
  /\ Local

\* The setup token may still be handed out when there is an account already:
\* the setup is then refused and the run is over.
Setup(w) ==
  /\ At(w, "setup")
  /\ \/ ~setup /\ Serve(Call(w)) /\ GoOn(w, op[w], "again")
     \/ setup /\ GoOn(w, op[w], "again") /\ UNCHANGED server
     \/ setup /\ Over(w) /\ UNCHANGED server
  /\ UNCHANGED <<code, runs, late, clean, torn>>

LoginAgain(w) ==
  /\ At(w, "again")
  /\ IF setup THEN GoOn(w, op[w], "findDb") ELSE Over(w)
  /\ Local

Core == Sections[1].awaits

\* A connection of the name is reused as it is, without a look at its tables.
FindDb(w) ==
  /\ At(w, "findDb")
  /\ \/ \E d \in DOMAIN dbs :
          GoOn(w, [op[w] EXCEPT !.db = d, !.seen = dbs[d].tables], "findCard")
     \/ dbs = <<>> /\ GoOn(w, op[w], "postDb")
  /\ Local

PostDb(w) ==
  /\ At(w, "postDb")
  /\ Serve(Call(w))
  /\ GoOn(w, [op[w] EXCEPT !.db = Len(dbs) + 1], "pollDb")
  /\ UNCHANGED <<code, runs, late, clean, torn>>

\* Mutant: the wait for the first synchronisation has no end.
PollDbForever(w) ==
  /\ At(w, "pollDb")
  /\ IF dbs[op[w].db].synced
       THEN GoOn(w, [op[w] EXCEPT !.polls = 0], "checkDb")
       ELSE GoOn(w, [op[w] EXCEPT !.polls = @ + 1], "pollDb")
  /\ Local

\* The wait for the first synchronisation, which goes on without it in the end.
PollDb(w) ==
  /\ At(w, "pollDb")
  /\ IF dbs[op[w].db].synced \/ op[w].polls = Polls
       THEN GoOn(w, [op[w] EXCEPT !.polls = 0], "checkDb")
       ELSE GoOn(w, [op[w] EXCEPT !.polls = @ + 1], "pollDb")
  /\ Local

\* Missing marts end the run, but the connection stays.
CheckDb(w) ==
  /\ At(w, "checkDb")
  /\ IF Core \subseteq dbs[op[w].db].tables
       THEN GoOn(w, [op[w] EXCEPT !.seen = dbs[op[w].db].tables], "findCard")
       ELSE Over(w)
  /\ Local

\* The next dashboard of main, or the end of the run.
NextSection(w) ==
  IF op[w].section = Len(Sections)
    THEN GoOn(w, op[w], "end")
    ELSE GoOn(w, [Idle EXCEPT !.ver = op[w].ver, !.db = op[w].db, !.seen = op[w].seen,
                              !.section = op[w].section + 1], "waitTable")

\* Every later dashboard waits for its table, and is left out without it.
WaitTable(w) ==
  /\ At(w, "waitTable")
  /\ IF Sections[op[w].section].awaits \subseteq dbs[op[w].db].tables
       THEN GoOn(w, op[w], "findCard")
       ELSE IF op[w].polls < Polls
         THEN GoOn(w, [op[w] EXCEPT !.polls = @ + 1], "waitTable")
         ELSE NextSection(w)
  /\ Local

\* Mutant: a card that is there is taken as it is.
TakeCard(w) ==
  /\ At(w, "findCard")
  /\ \/ \E c \in DOMAIN cards :
          /\ cards[c].name = ThisCard(w)
          /\ GoOn(w, [op[w] EXCEPT !.cards = Append(@, c)],
                  IF Len(op[w].cards) + 1 = Len(List(w))
                    THEN "findBoard" ELSE "findCard")
     \/ /\ \A c \in DOMAIN cards : cards[c].name # ThisCard(w)
        /\ GoOn(w, op[w], "postCard")
  /\ Local

\* Mutant: any card of the dashboard will do.
FindAnyCard(w) ==
  /\ At(w, "findCard")
  /\ \/ \E c \in DOMAIN cards :
          /\ cards[c].name[1] = op[w].section
          /\ GoOn(w, [op[w] EXCEPT !.found = c], "putCard")
     \/ /\ \A c \in DOMAIN cards : cards[c].name # ThisCard(w)
        /\ GoOn(w, op[w], "postCard")
  /\ Local

\* ensure_card and ensure_plain_card: the first card of the name, if any.
FindCard(w) ==
  /\ At(w, "findCard")
  /\ \/ \E c \in DOMAIN cards :
          /\ cards[c].name = ThisCard(w)
          /\ GoOn(w, [op[w] EXCEPT !.found = c], "putCard")
     \/ /\ \A c \in DOMAIN cards : cards[c].name # ThisCard(w)
        /\ GoOn(w, op[w], "postCard")
  /\ Local

\* A card that is there is brought to what the script says now.
WriteCard(w) ==
  /\ op[w].pc \in {"putCard", "postCard"}
  /\ Serve(Call(w))
  /\ LET c    == IF At(w, "putCard") THEN op[w].found ELSE Len(cards) + 1
         mine == Append(op[w].cards, c)
     IN  GoOn(w, [op[w] EXCEPT !.cards = mine],
              IF Len(mine) = Len(List(w))
                THEN "findBoard" ELSE "findCard")
  /\ UNCHANGED <<code, runs, late, clean, torn>>

\* Mutant: a dashboard is made in every run.
FindNoBoard(w) ==
  /\ At(w, "findBoard")
  /\ GoOn(w, op[w], "postBoard")
  /\ Local

\* ensure_dashboard and its four likes: a dashboard of the name is reused as
\* it is, whatever it shows.
FindBoard(w) ==
  /\ At(w, "findBoard")
  /\ IF \E b \in DOMAIN boards : boards[b].name = op[w].section
       THEN NextSection(w) ELSE GoOn(w, op[w], "postBoard")
  /\ Local

PostBoard(w) ==
  /\ At(w, "postBoard")
  /\ Serve(Call(w))
  /\ GoOn(w, [op[w] EXCEPT !.found = Len(boards) + 1], "putBoard")
  /\ UNCHANGED <<code, runs, late, clean, torn>>

\* Only now does it get its cards.
PutBoard(w) ==
  /\ At(w, "putBoard")
  /\ Serve(Call(w))
  /\ NextSection(w)
  /\ UNCHANGED <<code, runs, late, clean, torn>>

End(w) ==
  /\ At(w, "end")
  /\ Over(w)
  /\ Local

\* The run is killed, a call fails or its answer does not come in time: the
\* call it was about to make is not carried out, will be later, or is.
Dies(w) ==
  /\ op[w].pc \notin {"idle", "end"}
  /\ Over(w)
  /\ \/ /\ \/ UNCHANGED late
           \/ /\ op[w].pc \in Writes
              /\ Cardinality(late) < MaxLate
              /\ late' = late \cup {Call(w)}
        /\ torn' = IF At(w, "putBoard") THEN torn \cup {op[w].section} ELSE torn
        /\ UNCHANGED server
     \/ /\ op[w].pc \in Writes
        /\ Serve(Call(w))
        /\ torn' = IF At(w, "postBoard") THEN torn \cup {op[w].section} ELSE torn
        /\ UNCHANGED late
  /\ UNCHANGED <<code, runs, clean>>

LateCall ==
  /\ \E q \in late :
       /\ Serve(q)
       /\ late' = late \ {q}
       /\ torn' = IF q.call = "postBoard" THEN torn \cup {q.id} ELSE torn
  /\ clean' = FALSE
  /\ UNCHANGED <<code, runs, op>>

Step(w) ==
  WaitHealthy(w) \/ Login(w) \/ Setup(w) \/ LoginAgain(w) \/ FindDb(w)
    \/ PostDb(w) \/ PollDb(w) \/ CheckDb(w) \/ WaitTable(w) \/ FindCard(w)
    \/ WriteCard(w) \/ FindBoard(w) \/ PostBoard(w) \/ PutBoard(w) \/ End(w)

Next ==
  \/ Sync \/ LateCall
  \/ \E w \in Operators : Start(w) \/ Step(w) \/ Dies(w)

Spec == Init /\ [][Next]_vars

-----------------------------------------------------------------------------
(* Properties. *)

NamesShown(b) == {cards[c].name : c \in ToSet(b.cards)}

\* A dashboard is empty or shows the cards that one version of the script gives
\* it, as many as there are and no others, even when two runs and late calls
\* have made several things of one name.
BoardsAreEmptyOrWhole ==
  \A i \in DOMAIN boards :
    LET b == boards[i]
    IN  \/ b.cards = <<>>
        \/ \E v \in 1..MaxCode :
             /\ Len(b.cards) = Len(Listed(b.name, v))
             /\ NamesShown(b) = {b.name} \X ToSet(Listed(b.name, v))

\* Running the script over and over makes nothing twice, wherever runs die: it
\* takes two runs at once, or a call that lands after its client gave up.
NothingIsMadeTwice ==
  clean =>
    /\ Len(dbs) <= 1
    /\ \A c, d \in DOMAIN cards : cards[c].name = cards[d].name => c = d
    /\ \A b, d \in DOMAIN boards : boards[b].name = boards[d].name => b = d

\* Version v's cards of dashboard s, where they are.
Mine(s, v) ==
  {c \in DOMAIN cards : \E n \in ToSet(Listed(s, v)) : cards[c].name = <<s, n>>}

\* A run that gets to its end leaves the first dashboard, and every later one
\* whose tables were visible when it took its connection, with all cards of its
\* own version made and on its SQL, whatever earlier versions and dead runs left
\* there, and none of them empty but those whose maker died between POST and
\* PUT.  It does not put a card that its version adds on a dashboard that an
\* earlier one made: that is reused as it is.
RunLeavesItsScreens ==
  \A w \in Operators : clean /\ At(w, "end") =>
    \A s \in Boards : s = 1 \/ Sections[s].awaits \subseteq op[w].seen =>
      /\ \A n \in ToSet(Listed(s, op[w].ver)) :
           \E c \in DOMAIN cards : cards[c].name = <<s, n>>
      /\ \A c \in Mine(s, op[w].ver) : cards[c].ver = op[w].ver
      /\ \E b \in DOMAIN boards : boards[b].name = s
      /\ \A b \in DOMAIN boards :
           boards[b].name = s /\ boards[b].cards = <<>> => s \in torn
=============================================================================
