------------------------------- MODULE Scripts -------------------------------
(***************************************************************************)
(* What a configuration registers with nnwm.on and nnwm.add_rule           *)
(* (src/lua/config.cpp): a list of event hooks and an array of runtime     *)
(* rules.  Both are walked by C code that calls a Lua function for each    *)
(* match, and while the walk waits, the function may register, remove, and *)
(* call an action whose event starts another walk.  The walks under way    *)
(* are a stack, the innermost last.                                        *)
(***************************************************************************)
EXTENDS Naturals, SequencesExt

CONSTANTS
    Event,           \* what hooks are for
    AppId,           \* what rules match
    ConfigHooks,     \* the events of the hooks the configuration registers
    ConfigRules,     \* the app_ids of its rules
    RemovesPassed,   \* a function may remove a rule that a walk has passed: its own
    MaxHooks, MaxRules, MaxWalks   \* bounds: of the list, of the rules ever added, of
                                   \* the walks under way

ASSUME ScriptsAssumption ==
    /\ ConfigHooks \in Seq(Event) /\ ConfigRules \in Seq(AppId)
    /\ RemovesPassed \in BOOLEAN
    /\ MaxHooks \in Nat /\ MaxRules \in Nat /\ MaxWalks \in Nat

VARIABLES
    hooks,       \* server->hooks
    rules,       \* server->runtime_rules
    next_rule,   \* runtime_rule_next_id
    walks        \* the walks under way

scriptVars == <<hooks, rules, next_rule, walks>>

Hook == [match : Event, id : Nat]
Rule == [match : AppId, id : Nat]

\* at: the position of the function that runs; called and due: the functions
\* called so far, and those a walk found when it began
Walk == [over : {"hooks", "rules"}, match : Event \cup AppId, at : Nat,
         called : Seq(Nat), due : SUBSET Nat]

ScriptTypeOK ==
    /\ hooks \in Seq(Hook) /\ Len(hooks) <= MaxHooks
    /\ rules \in Seq(Rule) /\ Len(rules) <= MaxRules
    /\ next_rule \in Nat
    /\ walks \in Seq(Walk) /\ Len(walks) <= MaxWalks

\* mutant: an id is the place of the rule, so one that was freed comes back
FreshByCount == Len(rules)

\* the id of the next rule
Fresh == next_rule

NewHooks(events) == [i \in 1..Len(events) |-> [match |-> events[i], id |-> Len(hooks) + i]]
NewRules(apps) == [i \in 1..Len(apps) |-> [match |-> apps[i], id |-> Fresh + i - 1]]

ScriptInit ==
    /\ hooks = [i \in 1..Len(ConfigHooks) |-> [match |-> ConfigHooks[i], id |-> i]]
    /\ rules = [i \in 1..Len(ConfigRules) |-> [match |-> ConfigRules[i], id |-> i]]
    /\ next_rule = Len(ConfigRules) + 1
    /\ walks = <<>>

Registered(over) == IF over = "hooks" THEN hooks ELSE rules
Matching(over, match) == {r.id : r \in {x \in Range(Registered(over)) : x.match = match}}

\* a Lua function called by the innermost walk runs
InFunction == walks # <<>> /\ Last(walks).at > 0

Enter(over, match) ==
    /\ Len(walks) < MaxWalks
    /\ walks' = Append(walks, [over |-> over, match |-> match, at |-> 0,
                               called |-> <<>>, due |-> Matching(over, match)])
    /\ UNCHANGED <<hooks, rules, next_rule>>

\* fire_hook_plain, _window, _workspace, _output: from the event loop, or from an
\* action a function called
FireHook(event) == (walks = <<>> \/ InFunction) /\ Enter("hooks", event)

\* apply_runtime_rules: a window maps
ApplyRuntimeRules(app) == walks = <<>> /\ Enter("rules", app)

\* The innermost walk goes on to the next match, when the function it called last
\* has returned.  Hooks are only ever appended, so their place is their list node.
NextMatch(w) ==
    SelectInSubSeq(Registered(w.over), w.at + 1, Len(Registered(w.over)),
                   LAMBDA r : r.match = w.match)

CallNext ==
    /\ walks # <<>> /\ NextMatch(Last(walks)) > 0
    /\ LET i == NextMatch(Last(walks))
       IN walks' = [walks EXCEPT ![Len(walks)].at = i,
                        ![Len(walks)].called = Append(@, Registered(Last(walks).over)[i].id)]
    /\ UNCHANGED <<hooks, rules, next_rule>>

EndWalk ==
    /\ walks # <<>> /\ NextMatch(Last(walks)) = 0
    /\ walks' = Front(walks)
    /\ UNCHANGED <<hooks, rules, next_rule>>

\* l_nnwm_on
On(event) ==
    /\ InFunction /\ Len(hooks) < MaxHooks
    /\ hooks' = hooks \o NewHooks(<<event>>)
    /\ UNCHANGED <<rules, next_rule, walks>>

\* l_nnwm_add_rule
AddRule(app) ==
    /\ InFunction /\ next_rule <= MaxRules
    /\ rules' = rules \o NewRules(<<app>>)
    /\ next_rule' = next_rule + 1
    /\ UNCHANGED <<hooks, walks>>

\* l_nnwm_remove_rule: the last rule takes the place of the first with this id
RemoveRule(id) ==
    LET i == SelectInSeq(rules, LAMBDA r : r.id = id)
    IN /\ InFunction /\ i > 0
       /\ RemovesPassed \/ \A w \in Range(walks) : w.over = "rules" => i > w.at
       /\ rules' = Front([rules EXCEPT ![i] = Last(rules)])
       /\ UNCHANGED <<hooks, next_rule, walks>>

\* lua_reload, from the event loop: the configuration registers once more what is
\* still registered
ReloadScripts ==
    /\ walks = <<>>
    /\ Len(hooks) + Len(ConfigHooks) <= MaxHooks /\ next_rule + Len(ConfigRules) <= MaxRules + 1
    /\ hooks' = hooks \o NewHooks(ConfigHooks)
    /\ rules' = rules \o NewRules(ConfigRules)
    /\ next_rule' = next_rule + Len(ConfigRules)
    /\ UNCHANGED walks

ScriptNext ==
    \/ \E event \in Event : FireHook(event) \/ On(event)
    \/ \E app \in AppId : ApplyRuntimeRules(app) \/ AddRule(app)
    \/ \E r \in Range(rules) : RemoveRule(r.id)
    \/ CallNext \/ EndWalk \/ ReloadScripts

ScriptSpec == ScriptInit /\ [][ScriptNext]_scriptVars

-----------------------------------------------------------------------------

\* What was registered before the walk and still is, was called.
AllCalled(w) == w.due \cap Matching(w.over, w.match) \subseteq Range(w.called)

Ended == IF Len(walks') < Len(walks) THEN {Last(walks)} ELSE {}

\* However calls nest and whatever they register, a walk calls every hook and every
\* rule once, hooks in the order of their registration ("all are called in
\* registration order", CHANGELOG) and those registered meanwhile too.  It is checked
\* and proved only where functions remove no rule that a walk has passed or is at
\* (RemovesPassed = FALSE): the code breaks it there, as run rule_skipped shows.
WalksComplete ==
    [][ \A w \in Ended :
          /\ AllCalled(w)
          /\ IsInjective(w.called)
          /\ w.over = "hooks" =>
               /\ \A i, j \in 1..Len(w.called) : i < j => w.called[i] < w.called[j]
               /\ Matching("hooks", w.match) = Range(w.called) ]_scriptVars

\* "The callback is invoked for every new window that maps and matches" (stubs):
\* fails when a callback removes a rule before it in the array, or its own.
RulesInvoked == [][ \A w \in Ended : w.over = "rules" => AllCalled(w) ]_scriptVars

=============================================================================
