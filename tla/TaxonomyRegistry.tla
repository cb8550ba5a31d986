--------------------------- MODULE TaxonomyRegistry ---------------------------
(****************************************************************************)
(* The versioned category registry of the shop and its graph projection.    *)
(*                                                                          *)
(* Administrators publish versions, activate them and decide on proposals   *)
(* the shop's empty searches gave rise to.  Each command is a few database  *)
(* transactions at READ COMMITTED and then a slow, best effort rebuild of   *)
(* the projection in the graph store; nothing makes two commands wait for   *)
(* each other, except for the row locks of one UPDATE.  A version is a set  *)
(* of categories here; attributes, prices, texts, confidence, the deprecated*)
(* categories a version may carry, the recorded searches and the status of  *)
(* a proposal are left out.                                                 *)
(****************************************************************************)
EXTENDS Naturals, FiniteSets

CONSTANTS
    Admins,       \* administrators at work
    Builtin,      \* the categories of the built-in taxonomy
    NewCategory,  \* proposals of a category, and the category each proposes
    AliasOf,      \* proposals of an alias, and the category each speaks of
    MaxVersions   \* bound on versions ever published

ASSUME TaxonomyAssumption ==
    /\ Builtin # {} /\ MaxVersions \in Nat
    /\ DOMAIN NewCategory \cap DOMAIN AliasOf = {}

VARIABLES
    versions,   \* commerce_taxonomy_versions with their categories
    edges,      \* approved semantic relations, by the proposal that made them
    mappings,   \* external mappings <<version, category>>
    graph,      \* the projection in the graph store
    desk,       \* program state of each administrator's command
    crowded,    \* history: commands overlapped since one switched alone
    unprojected,      \* history: a change has not been projected yet
    due         \* history: categories approved since the last hand-made switch

registryVars == <<versions, edges, mappings, graph, desk, crowded, unprojected, due>>
tables == <<versions, edges, mappings>>
toldVars == <<crowded, unprojected, due>>

----------------------------------------------------------------------------
Versions == 1..MaxVersions
Unpublished == [status |-> "none", cats |-> {}]
Off == [pc |-> "off", job |-> 0, target |-> 0, cats |-> {}, seen |-> {}, locks |-> {},
        alone |-> FALSE, links |-> {}]

RegistryInit ==
    /\ versions = [v \in Versions |-> Unpublished]
    /\ edges = {} /\ mappings = {} /\ due = {}
    /\ graph = [cats |-> Builtin, links |-> {}]
    /\ desk = [a \in Admins |-> Off]
    /\ crowded = FALSE /\ unprojected = FALSE

Actives == {v \in Versions : versions[v].status = "active"}

\* load_active: some active version, the built-in taxonomy if there is none.
Served == IF Actives = {} THEN {Builtin} ELSE {versions[v].cats : v \in Actives}

IdleDesk(a) == desk[a].pc = "off"
Vacant == {v \in Versions : versions[v].status = "none" /\ \A a \in Admins : desk[a].target # v}
LockedBy(others) == UNION {desk[a].locks : a \in others}

Set(a, d) == desk' = [desk EXCEPT ![a] = d]

\* A command starts: whoever is at work is not alone any more.
Opens(a, d) ==
    LET alone == \A b \in Admins \ {a} : IdleDesk(b) IN
    /\ IdleDesk(a)
    /\ desk' = [b \in Admins |-> IF b = a THEN [d EXCEPT !.alone = alone]
                                 ELSE [desk[b] EXCEPT !.alone = FALSE]]
    /\ crowded' = (crowded \/ ~alone)
    /\ due' = IF alone THEN due ELSE {}

----------------------------------------------------------------------------
(* Publishing and activating.                                              *)

PublishDraft(a, cats) ==
    /\ IdleDesk(a)
    /\ \E v \in Vacant : versions' = [versions EXCEPT ![v] = [status |-> "draft", cats |-> cats]]
    /\ UNCHANGED <<edges, mappings, graph, desk, toldVars>>

\* publish(activate=True) of a new version, or activate of an existing one.
BeginSwitch(a, v, cats) ==
    /\ cats # {}
    /\ v \in Vacant \/ cats = versions[v].cats
    /\ Opens(a, [Off EXCEPT !.pc = "asking", !.target = v, !.cats = cats])
    /\ UNCHANGED <<tables, graph, unprojected>>

\* UPDATE ... WHERE status = 'active' starts: its snapshot holds these rows.
AskForActives(a) ==
    /\ desk[a].pc = "asking"
    /\ Set(a, [desk[a] EXCEPT !.pc = "archiving", !.seen = Actives])
    /\ UNCHANGED <<tables, graph, toldVars>>

\* It waits for rows another transaction has locked, then looks at them again;
\* rows that became active after the snapshot are not among them.
Archive(a) ==
    LET d == desk[a] IN
    /\ d.pc = "archiving"
    /\ d.seen \cap LockedBy(Admins \ {a}) = {}
    /\ Set(a, [d EXCEPT !.pc = "committing", !.locks = d.seen \cap Actives])
    /\ UNCHANGED <<tables, graph, toldVars>>

\* Mutant: the active rows are archived after the new one was made active.
ArchivesAllAfterwards(vs, d) ==
    [v \in Versions |-> IF v \in d.locks \cup {d.target}
                        THEN [status |-> "archived", cats |-> IF v = d.target THEN d.cats ELSE vs[v].cats]
                        ELSE vs[v]]

\* Mutant: the version that was active stays so.
SwitchedBeside(vs, d) == [vs EXCEPT ![d.target] = [status |-> "active", cats |-> d.cats]]

\* What the transaction leaves behind.
AfterSwitch(vs, d) ==
    [v \in Versions |-> IF v = d.target THEN [status |-> "active", cats |-> d.cats]
                        ELSE IF v \in d.locks THEN [vs[v] EXCEPT !.status = "archived"]
                        ELSE vs[v]]

CommitSwitch(a) ==
    LET d == desk[a]
        byHand == d.job = 0
    IN
    /\ d.pc = "committing"
    /\ d.target \notin LockedBy(Admins \ {a})
    /\ versions' = AfterSwitch(versions, d)
    /\ Set(a, [d EXCEPT !.pc = IF byHand THEN "refreshing" ELSE "marking", !.locks = {}])
    /\ crowded' = (crowded /\ ~d.alone)
    /\ unprojected' = TRUE
    /\ due' = IF byHand \/ ~d.alone THEN {} ELSE due
    /\ UNCHANGED <<edges, mappings, graph>>

----------------------------------------------------------------------------
(* Approvals.  The status recorded on a proposal is shown and counted but  *)
(* decides nothing: a proposal may be approved again, and rejecting it     *)
(* afterwards takes nothing back.                                          *)

\* Mutant: the proposed category joins the built-in taxonomy.
WithProposed(cats, c) == Builtin \cup {c}

\* _publish_category_proposal: the served categories and the new one.
Proposed(cats, c) == cats \cup {c}

\* The served taxonomy is read in a transaction of its own.
ApproveCategory(a, r) ==
    /\ \E cats \in Served, v \in Vacant :
          /\ NewCategory[r] \notin cats      \* otherwise 409
          /\ Opens(a, [Off EXCEPT !.pc = "asking", !.job = r, !.target = v,
                                  !.cats = Proposed(cats, NewCategory[r])])
    /\ UNCHANGED <<tables, graph, unprojected>>

\* The decision is recorded after the publication, in a second transaction.
MarkApproved(a) ==
    LET d == desk[a] IN
    /\ d.pc = "marking"
    /\ due' = IF d.alone THEN due \cup {NewCategory[d.job]} ELSE due
    /\ Set(a, [d EXCEPT !.pc = "refreshing"])
    /\ UNCHANGED <<tables, graph, crowded, unprojected>>

\* An alias takes effect in the transaction that records the decision.
ApproveAlias(a, r) ==
    /\ Opens(a, [Off EXCEPT !.pc = "refreshing", !.job = r])
    /\ edges' = edges \cup {r}
    /\ unprojected' = TRUE
    /\ UNCHANGED <<versions, mappings, graph>>

----------------------------------------------------------------------------
(* External mappings: the served version is read before the row is written.*)

BeginMapping(a, c) ==
    /\ IdleDesk(a)
    /\ \E v \in Actives :
          /\ c \in versions[v].cats
          /\ Set(a, [Off EXCEPT !.pc = "mapping", !.seen = {v}, !.cats = {c}])
    /\ UNCHANGED <<tables, graph, toldVars>>

WriteMapping(a) ==
    /\ desk[a].pc = "mapping"
    /\ mappings' = mappings \cup (desk[a].seen \X desk[a].cats)
    /\ Set(a, Off)
    /\ UNCHANGED <<versions, edges, graph, toldVars>>

----------------------------------------------------------------------------
(* The projection: read, infer and embed for a long time, replace.         *)

\* Mutant: the projection is built from the taxonomy the command set out from.
LoadOwnTaxonomy(a) ==
    /\ desk[a].pc = "refreshing"
    /\ Set(a, [desk[a] EXCEPT !.pc = "loading"])
    /\ UNCHANGED <<tables, graph, toldVars>>

LoadTaxonomy(a) ==
    /\ desk[a].pc = "refreshing"
    /\ \E cats \in Served : Set(a, [desk[a] EXCEPT !.pc = "loading", !.cats = cats])
    /\ UNCHANGED <<tables, graph, toldVars>>

LoadSemantics(a) ==
    /\ desk[a].pc = "loading"
    /\ Set(a, [desk[a] EXCEPT !.pc = "projecting",
                              !.links = {r \in edges : AliasOf[r] \in desk[a].cats}])
    /\ UNCHANGED <<tables, graph, toldVars>>

\* replace_commerce_projection is one transaction of the graph store.
Project(a) ==
    LET d == desk[a] IN
    /\ d.pc = "projecting"
    /\ graph' = [cats |-> d.cats, links |-> d.links]
    /\ unprojected' = FALSE
    /\ Set(a, Off)
    /\ UNCHANGED <<tables, crowded, due>>

\* A failure of the refresh is logged and the command reports success; any
\* other failure, and a crash, rolls the open transaction back.
Fails(a) ==
    /\ ~IdleDesk(a)
    /\ Set(a, Off)
    /\ UNCHANGED <<tables, graph, toldVars>>

RegistryNext ==
    \E a \in Admins :
        \/ PublishDraft(a, Builtin)
        \/ \E v \in Versions, cats \in {Builtin} \cup {versions[w].cats : w \in Versions} :
              BeginSwitch(a, v, cats)
        \/ AskForActives(a) \/ Archive(a) \/ CommitSwitch(a)
        \/ \E r \in DOMAIN NewCategory : ApproveCategory(a, r)
        \/ MarkApproved(a)
        \/ \E r \in DOMAIN AliasOf : ApproveAlias(a, r)
        \/ \E r \in DOMAIN AliasOf : BeginMapping(a, AliasOf[r])
        \/ WriteMapping(a)
        \/ LoadTaxonomy(a) \/ LoadSemantics(a) \/ Project(a) \/ Fails(a)

RegistrySpec == RegistryInit /\ [][RegistryNext]_registryVars

----------------------------------------------------------------------------
\* Once a version was active the shop never falls back to the built-in
\* taxonomy, however the switches of several administrators interleave.
NeverBackToBuiltin ==
    (\E v \in Versions : versions[v].status = "archived") => Actives # {}

\* After a switch nobody interfered with, and until commands overlap again, one
\* version is served and it has every category approved since that switch.
OrderlyVersionsAreServed ==
    ~crowded => Cardinality(Actives) <= 1 /\ \A cats \in Served : due \subseteq cats

\* ... and when the last change has been projected the graph shows the served
\* categories and every approved relation about them.
OrderlyProjectionIsCurrent ==
    ~crowded /\ ~unprojected /\ (\A a \in Admins : IdleDesk(a)) =>
        \A cats \in Served : graph = [cats |-> cats, links |-> {r \in edges : AliasOf[r] \in cats}]

\* A mapping speaks of a category its version has, even when another version
\* was activated while it was being written.
MappingsFitTheirVersion == \A p \in mappings : p[2] \in versions[p[1]].cats

RegistryServesWhatWasApproved ==
    NeverBackToBuiltin /\ OrderlyVersionsAreServed /\ OrderlyProjectionIsCurrent /\ MappingsFitTheirVersion
===============================================================================
