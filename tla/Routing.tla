------------------------------- MODULE Routing -------------------------------
(***************************************************************************)
(* «Маршрутизация»: what the user types (shared/routingRules.ts and the    *)
(* editor), what the main process makes of it for a connection, and what   *)
(* the service decides by it (internal/splitdns, splitcommon.go,           *)
(* perapp.go).                                                             *)
(*                                                                         *)
(* The rules change their form four times on the way: three views that are *)
(* kept side by side; one list of rules; the list the machine can carry    *)
(* out; and in the service groups of names, kernel routes and rules of     *)
(* programs.  What a thing's way is must not change with the form.         *)
(*                                                                         *)
(* A text is the sequence of its lines, a name the sequence of its labels, *)
(* an address its bits and a network the bits it fixes, a program its      *)
(* directory and file name; a keyword or an expression is the set of names *)
(* it fits.                                                                *)
(***************************************************************************)
EXTENDS Naturals, Sequences, FiniteSets, SequencesExt

CONSTANTS
    Names, Addresses, Programs,     \* what is asked for, reached and run
    Lines,          \* what is typed into a list or a rule
    Sites,          \* what «Простой» of an older version may hold
    Saved,          \* what «Продвинутые» may hold from an earlier session
    MaxLines,       \* bound: lines of a text
    MaxRules,       \* bound: rules of «Продвинутые»
    MaxEdits        \* bound: changes made in the editor

VARIABLES
    machine,        \* what the platform and its service can do
    settings,       \* settings.json
    open, draft,    \* the editor, and its settings as typed
    asked,          \* the settings the last connection was made with
    inForce,        \* what the service made of them; NoRouting without rules
    edits

vars == <<machine, settings, open, draft, asked, inForce, edits>>

----------------------------------------------------------------------------
(* Settings *)

Actions == {"proxy", "direct", "block"}
LISTS == <<"proxy", "direct", "block">>
Finals == {"proxy", "direct"}

\* A comment or a blank line, and one that does not parse.
Blank == [kind |-> "none", value |-> <<>>]
Wrong == [kind |-> "wrong", value |-> <<>>]

SIMPLE_KINDS == [only   |-> [final |-> "direct", action |-> "proxy"],
                 except |-> [final |-> "proxy", action |-> "direct"],
                 block  |-> [final |-> "proxy", action |-> "block"]]

ROUTING_DEFAULTS == [mode |-> "simple", kind |-> "except", sites |-> <<>>, final |-> "proxy",
                     lists |-> [a \in Actions |-> <<>>], rules |-> <<>>]

\* parseRoutingText: a line named twice in one text counts once.
IsRule(line) == line.kind \notin {"none", "wrong"}
Once(seq, x) == IF Contains(seq, x) THEN seq ELSE Append(seq, x)
ParseText(text, action) ==
    LET lines == FoldLeft(Once, <<>>, SelectSeq(text, IsRule)) IN
    [i \in DOMAIN lines |-> [action |-> action, line |-> lines[i]]]
HasErrors(text) == Contains(text, Wrong)
Trimmed(text) == SelectSeq(text, LAMBDA l : l # Blank)

SuffixLines(sites) == [i \in DOMAIN sites |-> [kind |-> "suffix", value |-> sites[i]]]

\* parseRouting
Enabled(rule) == IF rule.enabled THEN ParseText(rule.lines, rule.action) ELSE <<>>
ParsedLists(s) == FlattenSeq([i \in 1 .. 3 |-> ParseText(s.lists[LISTS[i]], LISTS[i])])
ParsedRules(s) == FlattenSeq([i \in DOMAIN s.rules |-> Enabled(s.rules[i])])
ParseRouting(s) ==
    IF s.mode = "simple"
    THEN [final |-> SIMPLE_KINDS[s.kind].final,
          rules |-> ParseText(SuffixLines(s.sites), SIMPLE_KINDS[s.kind].action)]
    ELSE [final |-> s.final, rules |-> IF s.mode = "rules" THEN ParsedRules(s) ELSE ParsedLists(s)]

\* sanitizeRouting: every text of every view parses.
Clean(s) ==
    /\ \A a \in Actions : ~HasErrors(s.lists[a])
    /\ \A i \in DOMAIN s.rules : ~HasErrors(s.rules[i].lines)

\* listsFromSimple, asLists, listRules, asAdvanced
NoLists(s) == \A a \in Actions : Trimmed(s.lists[a]) = <<>>
ListsFromSimple(s) ==
    [s EXCEPT !.final = SIMPLE_KINDS[s.kind].final,
              !.lists = [a \in Actions |-> IF a = SIMPLE_KINDS[s.kind].action
                                           THEN SuffixLines(s.sites) ELSE <<>>]]
AsLists(s) ==
    LET turned == IF s.mode = "simple" /\ NoLists(s) /\ s.sites # <<>> THEN ListsFromSimple(s) ELSE s IN
    [turned EXCEPT !.mode = "lists"]
\* A slip SameAnswers notices: the blocked first.
SlipListRules(s) ==
    LET order == <<"block", "direct", "proxy">> IN
    [i \in 1 .. 3 |-> [action |-> order[i], lines |-> s.lists[order[i]], enabled |-> TRUE]]
ListRules(s) ==
    [i \in 1 .. 3 |-> [action |-> LISTS[i], lines |-> s.lists[LISTS[i]], enabled |-> TRUE]]
AsAdvanced(s) ==
    IF s.mode = "rules" THEN s
    ELSE [AsLists(s) EXCEPT !.mode = "rules",
                            !.rules = IF s.rules # <<>> THEN s.rules ELSE ListRules(AsLists(s))]

----------------------------------------------------------------------------
(* A connection *)

\* A service that takes rules of programs takes rules, and runs where they can be written; only
\* Windows has no route into nowhere, and rules of programs cannot be written there.
Machines == {m \in [process : BOOLEAN, perApp : BOOLEAN, routing : BOOLEAN, blocks : BOOLEAN] :
                /\ m.perApp => m.process /\ m.routing
                /\ m.process => m.blocks}

NoRouting == [final |-> "proxy", groups |-> <<>>, networks |-> {}, apps |-> <<>>]

ByApp(r) == r.line.kind \in {"processName", "processPath"}

\* unsupportedRules, resolveRouting; then routingToSend, by what the service says of itself.
Supported(r) == (ByApp(r) => machine.process) /\ r.line.kind # "ruleset"
Carried(r) == machine.perApp \/ ~ByApp(r)
Sent(s) == SelectSeq(SelectSeq(ParseRouting(s).rules, Supported), Carried)

\* A slip FirstRuleWins notices: a rule joins a group further back than the last.
SlipOneGroup(groups, r) ==
    IF \E i \in DOMAIN groups : groups[i].action = r.action
    THEN [i \in DOMAIN groups |-> IF groups[i].action = r.action
                                  THEN [groups[i] EXCEPT !.lines = @ \cup {r.line}] ELSE groups[i]]
    ELSE Append(groups, [action |-> r.action, lines |-> {r.line}])

\* NewClassifier: neighbours with the same action are one group; other kinds break no run.
NameKinds == {"domain", "suffix", "keyword", "regex"}
IntoGroup(groups, r) ==
    IF groups # <<>> /\ Last(groups).action = r.action
    THEN [groups EXCEPT ![Len(groups)].lines = @ \cup {r.line}]
    ELSE Append(groups, [action |-> r.action, lines |-> {r.line}])
Groups(rules) == FoldLeft(IntoGroup, <<>>, SelectSeq(rules, LAMBDA r : r.line.kind \in NameKinds))

\* staticRoutes: a network goes by its first rule, and needs a route if that is not the default;
\* a route that is refused is noted in the journal and left out.
Laid(e) == e.way = "block" => machine.blocks
FirstFor(rules, net) ==
    rules[SelectInSeq(rules, LAMBDA r : r.line.kind = "ip" /\ r.line.value = net)].action
Networks(rules, final) ==
    {e \in {[net |-> r.line.value, way |-> FirstFor(rules, r.line.value)] :
                r \in {x \in ToSet(rules) : x.line.kind = "ip"}} : e.way # final /\ Laid(e)}

\* What the service makes of an `up`.
Compiled(s) ==
    LET rules == Sent(s)  final == ParseRouting(s).final IN
    IF rules = <<>> \/ ~machine.routing THEN NoRouting
    ELSE [final    |-> final,
          groups   |-> Groups(rules),
          networks |-> Networks(rules, final),
          apps     |-> SelectSeq(rules, ByApp)]

----------------------------------------------------------------------------
(* What the service decides *)

\* Matcher.Match walks the tree of the listed names from the last label to the first.
Tails(name) == Suffixes(name) \ {<<>>}
Nodes(listed) == UNION {Tails(d) : d \in listed}
WalksTo(listed, name) ==
    \E end \in Tails(name) \cap listed : Tails(end) \subseteq Nodes(listed)
\* nameSet.match
InSet(lines, name) ==
    \/ \E l \in lines : l.kind = "domain" /\ l.value = name
    \/ WalksTo({l.value : l \in {x \in lines : x.kind = "suffix"}}, name)
    \/ \E l \in lines : l.kind \in {"keyword", "regex"} /\ name \in l.value
\* Classifier.Classify, and the proxy's default
NameWay(c, name) ==
    LET i == SelectInSeq(c.groups, LAMBDA g : InSet(g.lines, name)) IN
    IF i = 0 THEN c.final ELSE c.groups[i].action
\* The kernel's longest match among the routes laid
AddressWay(c, address) ==
    LET over == {e \in c.networks : IsPrefix(e.net, address)} IN
    IF over = {} THEN c.final
    ELSE (CHOOSE e \in over : \A f \in over : Len(f.net) <= Len(e.net)).way
\* matchApp; a program whose action is the default has no cgroup.
ProgramWay(c, exe) ==
    LET i == SelectInSeq(c.apps, LAMBDA r : \/ r.line.kind = "processPath" /\ r.line.value = exe
                                            \/ r.line.kind = "processName" /\ r.line.value = exe[2]) IN
    IF i = 0 \/ c.apps[i].action = c.final THEN c.final ELSE c.apps[i].action

Answers(c) ==
    [names |-> [n \in Names |-> NameWay(c, n)],
     addresses |-> [a \in Addresses |-> AddressWay(c, a)],
     programs |-> [p \in Programs |-> ProgramWay(c, p)]]

----------------------------------------------------------------------------
(* The editor and connections *)

Texts == BoundedSeq(Lines, MaxLines)
OlderSettings ==
    {[ROUTING_DEFAULTS EXCEPT !.kind = k, !.sites = s, !.final = f] :
        k \in DOMAIN SIMPLE_KINDS, s \in Sites, f \in Finals}
SavedSettings ==
    {[ROUTING_DEFAULTS EXCEPT !.mode = "rules", !.rules = r, !.final = f] : r \in Saved, f \in Finals}

TypeOK ==
    /\ machine \in Machines
    /\ \A s \in {settings, draft, asked} :
          /\ s.mode \in {"simple", "lists", "rules"}
          /\ s.lists \in [Actions -> Texts \cup {SuffixLines(x) : x \in Sites}]
          /\ Len(s.rules) <= MaxRules
    /\ open \in BOOLEAN /\ edits \in 0 .. MaxEdits
    /\ Clean(settings) /\ Clean(asked)

Init ==
    /\ machine \in Machines
    /\ settings \in OlderSettings \cup SavedSettings
    /\ open = FALSE /\ draft = settings
    /\ asked = ROUTING_DEFAULTS /\ inForce = NoRouting
    /\ edits = 0

OpenEditor ==
    /\ ~open
    /\ open' = TRUE /\ draft' = settings
    /\ UNCHANGED <<machine, settings, asked, inForce, edits>>

CloseEditor ==
    /\ open
    /\ open' = FALSE /\ draft' = settings
    /\ UNCHANGED <<machine, settings, asked, inForce, edits>>

\* edit: what is typed is kept as typed, and saved only while every line parses.
Edit(next) ==
    /\ open /\ edits < MaxEdits
    /\ edits' = edits + 1
    /\ draft' = next
    /\ settings' = IF Clean(next) THEN next ELSE settings
    /\ UNCHANGED <<machine, open, asked, inForce>>

SwitchRulesOn == draft.mode # "rules" /\ Edit(AsAdvanced(draft))
SwitchRulesOff == draft.mode = "rules" /\ Edit(AsLists(draft))

\* ListTabs: the first change turns «Простой» into lists; «Блокировать» is there while it has lines.
EditLists ==
    /\ draft.mode # "rules"
    /\ LET shown == AsLists(draft) IN
       \/ \E a \in {x \in Actions : x # "block" \/ Trimmed(shown.lists[x]) # <<>>}, text \in Texts :
              Edit([shown EXCEPT !.lists[a] = text])
       \/ \E f \in Finals : Edit([shown EXCEPT !.final = f])

\* AdvancedRules
Swapped(rules, i) == [rules EXCEPT ![i] = rules[i + 1], ![i + 1] = rules[i]]
EditRules ==
    /\ draft.mode = "rules"
    /\ \/ /\ Len(draft.rules) < MaxRules
          /\ Edit([draft EXCEPT !.rules = Append(@, [action |-> "proxy", lines |-> <<>>, enabled |-> TRUE])])
       \/ \E i \in DOMAIN draft.rules :
              \/ \E text \in Texts : Edit([draft EXCEPT !.rules[i].lines = text])
              \/ \E a \in Actions : Edit([draft EXCEPT !.rules[i].action = a])
              \/ Edit([draft EXCEPT !.rules[i].enabled = ~@])
              \/ Edit([draft EXCEPT !.rules = RemoveAt(@, i)])
              \/ i < Len(draft.rules) /\ Edit([draft EXCEPT !.rules = Swapped(@, i)])
       \/ \E f \in Finals : Edit([draft EXCEPT !.final = f])

\* A connection is made, from the main screen, the tray or by itself: with the settings saved.
Connect ==
    /\ asked' = settings
    /\ inForce' = Compiled(settings)
    /\ UNCHANGED <<machine, settings, open, draft, edits>>

Next == OpenEditor \/ CloseEditor \/ SwitchRulesOn \/ SwitchRulesOff \/ EditLists \/ EditRules \/ Connect

Spec == Init /\ [][Next]_vars

----------------------------------------------------------------------------
(* What the user is promised *)

About == [domain |-> "name", suffix |-> "name", keyword |-> "name", regex |-> "name",
          ip |-> "address", processName |-> "program", processPath |-> "program"]
Fits(line, what, thing) ==
    /\ About[line.kind] = what
    /\ CASE line.kind \in {"domain", "processPath"} -> line.value = thing
         [] line.kind = "suffix" -> IsSuffix(line.value, thing)
         [] line.kind \in {"keyword", "regex"} -> thing \in line.value
         [] line.kind = "ip" -> IsPrefix(line.value, thing)
         [] line.kind = "processName" -> line.value = thing[2]
Here(line) ==
    /\ machine.routing /\ IsRule(line) /\ line.kind # "ruleset"
    /\ line.kind \in {"processName", "processPath"} => machine.process /\ machine.perApp
NamedIn(text, what, thing) == \E l \in ToSet(text) : Here(l) /\ Fits(l, what, thing)

\* The rules of the view in force as the editor shows them, from top to bottom.
Shown(s) ==
    IF s.mode = "rules" THEN SelectSeq(s.rules, LAMBDA r : r.enabled)
    ELSE IF s.mode = "lists"
         THEN [i \in 1 .. 3 |-> [action |-> LISTS[i], lines |-> s.lists[LISTS[i]]]]
    ELSE <<[action |-> SIMPLE_KINDS[s.kind].action, lines |-> SuffixLines(s.sites)]>>
Default(s) ==
    IF \E i \in DOMAIN Shown(s) : \E l \in ToSet(Shown(s)[i].lines) : Here(l)
    THEN IF s.mode = "simple" THEN SIMPLE_KINDS[s.kind].final ELSE s.final
    ELSE "proxy"
Meant(s, what, thing) ==
    LET i == SelectInSeq(Shown(s), LAMBDA r : NamedIn(r.lines, what, thing)) IN
    IF i = 0 THEN Default(s) ELSE Shown(s)[i].action

NetworksOver(s, address) ==
    {l.value : l \in {x \in UNION {ToSet(Shown(s)[i].lines) : i \in DOMAIN Shown(s)} :
                        Here(x) /\ x.kind = "ip" /\ IsPrefix(x.value, address)}}

\* «Правила проверяются сверху вниз: первое подходящее решает»: through the views, the merging of
\* lines, what the machine can carry out, the groups with their trees of names, the kernel's routes
\* and the cgroups, a name, an address and a program go the way of the first line that names them,
\* or the default.  Networks one inside another are left out: there the kernel takes the longest.
\* An address to be blocked takes the default on Windows, as docs/routing.md says.
MeantForAddress(s, a) ==
    LET way == Meant(s, "address", a) IN
    IF way = "block" /\ ~machine.blocks THEN Default(s) ELSE way
FirstRuleWins ==
    /\ \A n \in Names : NameWay(inForce, n) = Meant(asked, "name", n)
    /\ \A p \in Programs : ProgramWay(inForce, p) = Meant(asked, "program", p)
    /\ \A a \in Addresses :
          Cardinality(NetworksOver(asked, a)) <= 1 => AddressWay(inForce, a) = MeantForAddress(asked, a)

\* «Switching over loses nothing»: the lists that «Простой» turns into, and the rules that the
\* lists turn into, send everything where it went before.
SameAnswers ==
    LET same(s) == Answers(Compiled(s)) = Answers(Compiled(draft)) IN
    /\ draft.mode = "lists" \/ (draft.mode = "simple" /\ NoLists(draft)) => same(AsLists(draft))
    /\ draft.mode # "rules" /\ draft.rules = <<>> /\ (draft.mode = "simple" => NoLists(draft)) =>
          same(AsAdvanced(draft))
=============================================================================
