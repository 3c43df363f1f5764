------------------------------- MODULE MCRules -------------------------------
(***************************************************************************)
(* One run for what the rules come to: either the editor and what the      *)
(* service makes of its rules (Routing), or the scanner that carries out   *)
(* those of programs (PerApp).  They share no state: `part` says which of  *)
(* the two a behaviour is about, and the other stays still.                *)
(***************************************************************************)
EXTENDS Naturals, Sequences, FiniteSets

CONSTANTS Pids, Exes, Skipped, Homes, Routings, MaxConnections, MaxSteps, MaxKills, MaxLines, MaxRules, MaxEdits

ASSUME SkippedAssumption == Skipped \subseteq Pids
ASSUME HomesAssumption == Homes \cap {"", "proxy", "direct", "block"} = {}

VARIABLES proc, gone, stage, routing, there, fw, marked, saved, origin, where, list, left, looking, home, inside, lost, count,
          part, machine, settings, open, draft, asked, inForce, edits

\* Programs through the VPN by default, and around it.
MCRoutings ==
    {[final |-> "proxy", rules |-> <<[action |-> "direct", exe |-> "game"], [action |-> "block", exe |-> "spy"]>>],
     [final |-> "direct", rules |-> <<[action |-> "proxy", exe |-> "game"]>>]}

\* A small world: names under one domain and beside it, two nested networks.
Names == {<<"x", "ru">>, <<"a", "x", "ru">>, <<"y", "ru">>}
Addresses == {<<0, 0>>, <<0, 1>>, <<1, 0>>}
Programs == {<<"/usr/bin", "app">>, <<"/opt", "app">>}
Sites == {<<>>, <<<<"x", "ru">>>>, <<<<"x", "ru">>, <<"y", "ru">>>>}
Lines ==
    {[kind |-> "wrong", value |-> <<>>],
     [kind |-> "suffix", value |-> <<"x", "ru">>],
     [kind |-> "domain", value |-> <<"a", "x", "ru">>],
     [kind |-> "keyword", value |-> {<<"a", "x", "ru">>, <<"y", "ru">>}],
     [kind |-> "ip", value |-> <<0>>],
     [kind |-> "processName", value |-> "app"],
     [kind |-> "processPath", value |-> <<"/opt", "app">>]}
Saved ==
    {<<[action |-> "proxy", lines |-> <<[kind |-> "domain", value |-> <<"y", "ru">>]>>, enabled |-> TRUE],
       [action |-> "direct", lines |-> <<>>, enabled |-> TRUE],
       [action |-> "proxy", lines |-> <<[kind |-> "suffix", value |-> <<"x", "ru">>]>>, enabled |-> TRUE]>>}

programs == <<proc, gone, stage, routing, there, fw, marked, saved, origin, where, list, left, looking,
              home, inside, lost, count>>
editor == <<machine, settings, open, draft, asked, inForce, edits>>

P == INSTANCE PerApp WITH run <- stage, MaxRuns <- MaxConnections
R == INSTANCE Routing

\* A rule names one of the three actions.
ASSUME RoutingsAssumption == \A r \in Routings : P!DirsOf(r) \subseteq P!Ways

RulesInit ==
    /\ P!Init
    /\ \/ part = "editor" /\ R!Init
       \/ /\ part = "programs"
          /\ machine = 0 /\ settings = 0 /\ open = 0 /\ draft = 0
          /\ asked = 0 /\ inForce = 0 /\ edits = 0
RulesNext ==
    \/ part = "editor" /\ R!Next /\ UNCHANGED <<programs, part>>
    \/ part = "programs" /\ P!Next /\ UNCHANGED <<editor, part>>
RulesSpec == RulesInit /\ [][RulesNext]_<<programs, editor, part>>
                       /\ WF_<<programs, editor>>(part = "programs" /\ P!Scan /\ UNCHANGED <<editor, part>>)

\* See Routing.FirstRuleWins: a thing goes the way of the first line that names it.
FirstRuleWins == part = "editor" => R!FirstRuleWins
\* See Routing.SameAnswers: switching the views over changes nothing's way.
SameAnswers == part = "editor" => R!SameAnswers
\* See PerApp.NothingStays: nothing of the service stays on the system.
NothingStays == P!NothingStays
=============================================================================
