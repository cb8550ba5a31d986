------------------------------- MODULE MCRecords -------------------------------
(* The parts of the service that keep records of their own and share no       *)
(* variable: the catalog of the commerce provider, the demo shop behind the   *)
(* same port, the taxonomy, the quality review, the guest sessions, the desk  *)
(* of the human agents and the replicas of the service.  A behaviour of this  *)
(* instance is one of them, chosen at the start; the others keep one initial  *)
(* state.  The parts share the model values that are permuted.                *)
EXTENDS ProviderCatalog, MockCommerce, TaxonomyRegistry, QualityReview,
        GuestIdentity, HandoffDesk, Replicas, TLC

CONSTANTS first, again, rival, other, clash, x1, x2, p1, p2, cx, s1, s2

VARIABLE part

Alike == Permutations(Reviewers)

\* ProviderCatalog: a retry, a rival with the same name, another name, and a key used twice.
MCKey == [r \in MintCalls |-> IF r \in {first, again, clash} THEN "k1"
                              ELSE IF r = rival THEN "k2" ELSE "k3"]
MCName == [r \in MintCalls |-> IF r \in {other, clash} THEN "vases" ELSE "kites"]

\* The generated catalog: by category (one not yet minted), brand, series, variant.
MCQueries == [category : 0 .. 3, brand : -1 .. 1, series : {{}, {1}}, variants : {{0, 1}, {1}},
              mentions : {{1}}, sort : {"relevance"}]
             \cup [category : 0 .. 3, brand : -1 .. 0, series : {{}}, variants : {{0, 1}},
                   mentions : {{}, {0}}, sort : {"relevance", "price_asc", "price_desc", "newest"}]
MCUnitPrice(p, m) == (2 * p + 2 * m + 1) % 3

\* MockCommerce: two pieces of a SKU that is asked for and one of another; two
\* purchases that race for them, or two calls for each step of one, or one
\* purchase and three uses of the catalog.
MCStock == s1 :> 2 @@ s2 :> 1
MCMaxOrder == [s \in Skus |-> 2]
MCBaskets == {s1 :> n @@ s2 :> 0 : n \in {1, 2}}
MCBudgets ==
    {[update_cart |-> 2, quote |-> 2, order |-> 2, payment |-> 0, mock_pay |-> 0, catalog |-> 0],
     [update_cart |-> 1, quote |-> 1, order |-> 1, payment |-> 2, mock_pay |-> 2, catalog |-> 0],
     [update_cart |-> 1, quote |-> 1, order |-> 1, payment |-> 0, mock_pay |-> 0, catalog |-> 3]}

\* TaxonomyRegistry: a proposal of a category and one of an alias for it.
MCNewCategory == p1 :> cx
MCAliasOf == p2 :> cx

\* Replicas: a pair of providers, the spare alone, a plain one, none.
Deployed(keys, resilient, light, intent, shared) ==
    [keys |-> keys, resilient |-> resilient, light |-> light, intent |-> intent, shared |-> shared]
MCSetups == {
    Deployed({"glm", "minimax"}, TRUE, FALSE, "light", TRUE),
    Deployed({"spare"}, TRUE, TRUE, "kimi", TRUE),
    Deployed({"glm"}, FALSE, TRUE, "glm", FALSE),
    Deployed({}, TRUE, FALSE, "light", TRUE)}

--------------------------------------------------------------------------------
parts == {"mint", "shelf", "mock", "taxonomy", "review", "guest", "desk", "fleet"}

FirstOf(S) == CHOOSE x \in S : TRUE

RecordsInit ==
    /\ part \in parts
    /\ CatalogInit /\ VirtualCatalogInit
    /\ MockInit
    /\ part = "mock" \/ budget = FirstOf(Budgets)
    /\ RegistryInit /\ ReviewInit /\ GuestInit
    /\ DeskInit
    /\ part = "desk" \/ watch = "messages"
    /\ FleetInit
    /\ part = "fleet" \/ setup = FirstOf(Setups)

RecordsNext ==
    \/ /\ part = "mint" /\ CatalogNext
       /\ UNCHANGED <<part, shelfVars, mockVars, registryVars, reviewVars,
                     guestVars, deskVars, fleetVars>>
    \/ /\ part = "shelf" /\ VirtualCatalogNext
       /\ UNCHANGED <<part, catalogVars, mockVars, registryVars, reviewVars,
                     guestVars, deskVars, fleetVars>>
    \/ /\ part = "mock" /\ MockNext
       /\ UNCHANGED <<part, catalogVars, shelfVars, registryVars, reviewVars,
                     guestVars, deskVars, fleetVars>>
    \/ /\ part = "taxonomy" /\ RegistryNext
       /\ UNCHANGED <<part, catalogVars, shelfVars, mockVars, reviewVars,
                     guestVars, deskVars, fleetVars>>
    \/ /\ part = "review" /\ ReviewNext
       /\ UNCHANGED <<part, catalogVars, shelfVars, mockVars, registryVars,
                     guestVars, deskVars, fleetVars>>
    \/ /\ part = "guest" /\ GuestNext
       /\ UNCHANGED <<part, catalogVars, shelfVars, mockVars, registryVars,
                     reviewVars, deskVars, fleetVars>>
    \/ /\ part = "desk" /\ DeskNext
       /\ UNCHANGED <<part, catalogVars, shelfVars, mockVars, registryVars,
                     reviewVars, guestVars, fleetVars>>
    \/ /\ part = "fleet" /\ FleetNext
       /\ UNCHANGED <<part, catalogVars, shelfVars, mockVars, registryVars,
                     reviewVars, guestVars, deskVars>>

RecordsSpec ==
    RecordsInit /\ [][RecordsNext]_<<part, catalogVars, shelfVars, mockVars, registryVars, reviewVars,
                                     guestVars, deskVars, fleetVars>>

===============================================================================
