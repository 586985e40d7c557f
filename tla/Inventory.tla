------------------------------ MODULE Inventory ------------------------------
(***************************************************************************)
(* The rest of api.audit: dependencies.py, which reads the manifests of a  *)
(* repository after all findings are decided, the crypto assets made of    *)
(* findings and dependencies, and the edges of the CycloneDX document.     *)
(*                                                                         *)
(* A manifest is read by safe_read_text, which raises PermissionError; and *)
(* a parser raises for JSON or TOML of a shape it does not expect.         *)
(* Nothing catches either: the audit, complete but for this, is lost.      *)
(***************************************************************************)
EXTENDS AuditPipeline

CONSTANTS
    LastManifest,   \* manifests are numbered in the order of ecosystem and path
    Contents,       \* what a manifest may be; one that is skipped has no items
    Names,          \* of dependencies, numbered in the order of lower case
    Spellings,      \* a name is lowered for comparison, and shown as spelled
    Signals,        \* the names crypto_dependency accepts
    LibraryOf       \* the library of which calls are taken for calls of a name

Manifests == 1..LastManifest
Items == [name : Names, spelling : Spellings]
NoDependency == [name |-> 0, spelling |-> 0]

ASSUME InventoryAssumption ==
    /\ LastManifest \in Nat /\ Names \subseteq Nat \ {0} /\ Signals \subseteq Names
    /\ Contents \subseteq [raises : BOOLEAN, items : Seq(Items)]
    /\ LibraryOf \in [Names -> Libraries]

VARIABLES
    manifest,       \* the manifests
    unparsed,       \* those discover_dependencies has yet to come to
    found,          \* the dependencies, by <<manifest, name>>
    assets,         \* those of findings, by what their identity is made of
    lost            \* the exception of a manifest has ended the audit

inventory == <<manifest, unparsed, found, assets, lost>>
allVars == <<vars, inventory>>

-----------------------------------------------------------------------------
(***************************************************************************)
(* Dependencies                                                            *)
(***************************************************************************)
Declared(content) == {content.items[i].name : i \in DOMAIN content.items}

\* Of two items with the same name the last is kept.
LastSpelling(content, name) ==
    LET own == {i \in DOMAIN content.items : content.items[i].name = name}
    IN  content.items[CHOOSE i \in own : \A j \in own : j <= i].spelling

Noted(m) ==
    [k \in DOMAIN found \cup {m} \X Declared(manifest[m]) |->
        IF k[1] = m THEN LastSpelling(manifest[m], k[2]) ELSE found[k]]

Dependency(k) == [name |-> k[2], spelling |-> found[k]]

-----------------------------------------------------------------------------
(***************************************************************************)
(* Assets                                                                  *)
(***************************************************************************)
\* What a finding is taken to come from: a declared dependency its call names, by
\* the first such name; or else the only crypto dependency, if there is only one.
\* Two spellings in two manifests are two.
FirstNamed(S) ==
    CHOOSE k \in S : \A j \in S : k[2] < j[2] \/ (k[2] = j[2] /\ k[1] <= j[1])

CalledDependencies(p) ==
    LET library == CallAt(scanned, p).library
    IN  {k \in DOMAIN found : library # "other" /\ LibraryOf[k[2]] = library}

CryptoDependencies == {Dependency(k) : k \in {j \in DOMAIN found : j[2] \in Signals}}

Attribution(p) ==
    IF CalledDependencies(p) # {} THEN Dependency(FirstNamed(CalledDependencies(p)))
    ELSE IF \E d \in CryptoDependencies : CryptoDependencies = {d} THEN CHOOSE d \in CryptoDependencies : TRUE
    ELSE NoDependency

FaultyIdentity(p) == <<p[1], LineOf(p), findings[p].algorithm>>      \* the purpose is dropped

\* The column is no part of the identity.
Identity(p) == <<p[1], LineOf(p), findings[p].algorithm, findings[p].purpose>>

\* Of the findings with one identity, the last makes the asset.
Maker(id) ==
    LET own == {p \in DOMAIN findings : Identity(p) = id}
    IN  CHOOSE p \in own : \A q \in own \ {p} : Earlier(q, p)

Assets ==
    [id \in {Identity(p) : p \in DOMAIN findings} |->
        [finding |-> Maker(id), dependency |-> Attribution(Maker(id))]]

\* In the CycloneDX document an asset hangs under the component of its dependency;
\* where several manifests declare the name, under that of the last.
Component(d) ==
    LET own == {k \in DOMAIN found : k[2] = d.name}
    IN  CHOOSE k \in own : \A j \in own : j[1] <= k[1]

-----------------------------------------------------------------------------
InventoryInit ==
    /\ Init
    /\ manifest \in [Manifests -> Contents] /\ unparsed = Manifests
    /\ found = [k \in {} |-> k] /\ assets = [id \in {} |-> id] /\ lost = FALSE

\* The steps before discover_dependencies.
Earliest ==
    /\ \/ ReadSource \/ Analyze \/ Assess \/ LoadConfig \/ ConfigRaises
       \/ Inline \/ Configured
    /\ UNCHANGED inventory

Parse(m) ==
    /\ Step("derive") /\ ~lost /\ m \in unparsed
    /\ UNCHANGED <<unread, scanned, findings, configured, todo, log, result>>
    /\ UNCHANGED <<manifest, assets>>

ParseManifest ==
    \E m \in unparsed :
        /\ Parse(m) /\ ~manifest[m].raises
        /\ found' = Noted(m) /\ unparsed' = unparsed \ {m}
        /\ UNCHANGED <<pc, lost>>

ManifestRaises ==
    \E m \in unparsed :
        /\ Parse(m) /\ manifest[m].raises
        /\ lost' = TRUE
        /\ UNCHANGED <<pc, unparsed, found>>

DeriveAll ==
    /\ unparsed = {} /\ ~lost
    /\ Derive /\ assets' = Assets
    /\ UNCHANGED <<manifest, unparsed, found, lost>>

FullAudit == Earliest \/ ParseManifest \/ ManifestRaises \/ DeriveAll

Outside ==
    /\ ~lost
    /\ EditFile \/ EditConfig \/ Midnight
    /\ UNCHANGED inventory

EditManifest ==
    /\ ~lost /\ Change
    /\ \E m \in Manifests, c \in Contents : manifest' = [manifest EXCEPT ![m] = c]
    /\ UNCHANGED <<text, config, day, unparsed, found, assets, lost>>

Ended == (pc \in {"done", "raised"} \/ lost) /\ UNCHANGED allVars

InventoryNext == FullAudit \/ Outside \/ EditManifest \/ Ended

InventorySpec == InventoryInit /\ [][InventoryNext]_allVars /\ WF_allVars(FullAudit)

-----------------------------------------------------------------------------
(***************************************************************************)
(* Properties                                                              *)
(***************************************************************************)
Dependencies == [name : Names, spelling : Spellings] \cup {NoDependency}

InventoryTypeOK ==
    /\ TypeOK
    /\ manifest \in [Manifests -> Contents] /\ unparsed \subseteq Manifests
    /\ DOMAIN found \subseteq Manifests \X Names
    /\ found \in [DOMAIN found -> Spellings]
    /\ assets \in [DOMAIN assets -> [finding : Positions, dependency : Dependencies]]
    /\ lost \in BOOLEAN

\* Each audit ends, with a result or with the exception of a manifest or of the
\* configuration, however the files change in the meantime (api.py:64-172).
AuditEnds == <>(pc \in {"done", "raised"} \/ lost)

DeclaredNow == UNION {{m} \X Declared(manifest[m]) : m \in Manifests}

\* An exception is what a manifest is to blame for, or a configuration that is
\* TOML of another shape; without one the dependencies are those of all manifests,
\* one for each name of a manifest, spelled as it spells the name last
\* (dependencies.py:34-57, suppression.py:64).
NoneMissed ==
    changes = 0 =>
        /\ lost => \E m \in Manifests : manifest[m].raises
        /\ pc = "raised" => config.form = "misshapen"
        /\ pc = "done" =>
              /\ config.form # "misshapen" /\ \A m \in Manifests : ~manifest[m].raises
              /\ DOMAIN found = DeclaredNow
              /\ \A k \in DOMAIN found :
                    found[k] = LastSpelling(manifest[k[1]], k[2])

SameUse(p, q) ==
    /\ p[1] = q[1] /\ LineOf(p) = LineOf(q)
    /\ findings[p].algorithm = findings[q].algorithm
    /\ findings[p].purpose = findings[q].purpose

\* A call that names the library of a declared dependency is attributed to that
\* one; where it names none and the repository declares several crypto
\* dependencies, or none, it is attributed to none.  A single crypto dependency
\* is what the code guesses, which is its own choice and not claimed here.
WellAttributed(p, d) ==
    IF CalledDependencies(p) # {}
    THEN d # NoDependency /\ LibraryOf[d.name] = CallAt(scanned, p).library
    ELSE (\A e \in CryptoDependencies : \E f \in CryptoDependencies : f # e)
             => d = NoDependency

\* Every finding has an asset of its place, algorithm and purpose, although its
\* column is no part of the asset's identity; the asset tells of the last such
\* finding, and its dependency and its edge are those of that call and of declared
\* dependencies (api.py:190-251, reporting.py:85, 133-136).
AssetsCover ==
    pc = "done" =>
        /\ \A p \in DOMAIN findings :
              \E id \in DOMAIN assets :
                  LET q == assets[id].finding
                  IN  SameUse(p, q) /\ (p = q \/ Earlier(p, q))
        /\ \A id \in DOMAIN assets :
              LET a == assets[id]
              IN  /\ a.finding \in DOMAIN findings
                  /\ WellAttributed(a.finding, a.dependency)
                  /\ a.dependency # NoDependency =>
                        /\ \E k \in DOMAIN found : Dependency(k) = a.dependency
                        /\ Component(a.dependency) \in DOMAIN found
                        /\ Component(a.dependency)[2] = a.dependency.name

\* The inventory of an audit is complete, and each use of an algorithm in it is
\* attributed as the code means to.
InventoryExact == NoneMissed /\ AssetsCover
=============================================================================
