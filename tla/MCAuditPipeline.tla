--------------------------- MODULE MCAuditPipeline ---------------------------
(***************************************************************************)
(* Three instances of Inventory: two short files that change while they    *)
(* are audited, one finding of each kind in each context, and lines with   *)
(* several calls beside manifests that change.                             *)
(***************************************************************************)
EXTENDS Inventory

Call(a, p) == [algorithm |-> a, purpose |-> p, confidence |-> "HIGH"]
Marker(rule, expires, trailing) ==
    [rule |-> rule, expires |-> expires, trailing |-> trailing]
Line(calls, marker) == [calls |-> calls, marker |-> marker, ends |-> TRUE]
FormFeed(line) == [line EXCEPT !.ends = FALSE]
Use(call, library) == [what |-> call, library |-> library]

Signs == <<Use(Call("RSA", "SIGNATURE"), "other")>>
Encrypts == <<Use(Call("RSA", "ENCRYPTION"), "other")>>
Expired == Marker("QG-RSA-SIGNATURE", Past, FALSE)
Tonight == Marker("QG-RSA-SIGNATURE", 0, FALSE)
Sloppy == Marker("QG-RSA-SIGNATURE", Past, TRUE)

\* Lines with a call, with a marker, with both and with neither.
RacedTexts == {
    <<>>,
    <<Line(Signs, NoMarker)>>,
    <<Line(<<>>, Tonight), Line(Signs, NoMarker)>>,
    <<Line(<<>>, Expired), Line(Signs, Tonight)>>,
    <<Line(Signs, Tonight), Line(Encrypts, NoMarker)>>,
    <<Line(<<>>, Sloppy), Line(Signs, NoMarker)>>,
    <<FormFeed(Line(<<>>, Tonight)), Line(Signs, NoMarker), Line(Encrypts, Tonight)>>}

Entry(rule, paths, expires) == [rule |-> rule, paths |-> paths, expires |-> expires]
Toml(entries) == [form |-> "toml", entries |-> entries]

RacedConfigs == {
    [form |-> "unreadable", entries |-> <<>>],
    [form |-> "misshapen", entries |-> <<>>],
    Toml(<<>>),
    Toml(<<Entry("QG-RSA-SIGNATURE", {1}, Past), Entry("ALL", {2}, 0)>>)}

PlainContext ==
    [exposure |-> Unknown, lifetime |-> NoLifetime, sensitivity |-> FALSE, system |-> FALSE]

RacedContexts == {PlainContext}

\* Calls of any two kinds, one of them in a test file, or one that may be suppressed
\* by the configuration, and any context.
KindTexts == {<<>>} \cup {<<Line(<<Use(o, "other")>>, NoMarker)>> : o \in Observations}
KindConfigs == {Toml(<<>>), Toml(<<Entry("ALL", {1}, Never)>>)}
KindContexts ==
    [exposure : {Unknown, "external", "public"}, lifetime : {NoLifetime, 9, 10},
     sensitivity : BOOLEAN, system : {TRUE}]

\* Names: cryptography, jwt, node-forge, pyjwt and one of no interest.
MCLibraryOf == <<"cryptography", "jwt", "other", "jwt", "other">>

Named(name, spelling) == [name |-> name, spelling |-> spelling]
Declares(items) == [raises |-> FALSE, items |-> items]
Nothing == Declares(<<>>)

MCContents == {
    Nothing,
    [raises |-> TRUE, items |-> <<>>],
    Declares(<<Named(4, 1)>>),
    Declares(<<Named(4, 1), Named(2, 1), Named(4, 2)>>),
    Declares(<<Named(1, 1)>>),
    Declares(<<Named(3, 1), Named(5, 1)>>)}

\* One or two calls on a line, with and without a library.
Tokens == Use(Call("RSA", "SIGNATURE"), "jwt")
Wraps == Use(Call("RSA", "SIGNATURE"), "cryptography")
StoredTexts == {
    <<>>,
    <<Line(Signs, NoMarker)>>,
    <<Line(<<Tokens, Wraps>>, NoMarker)>>,
    <<FormFeed(Line(<<Wraps>> \o Encrypts, NoMarker)), Line(<<Tokens>>, NoMarker)>>}

StoredContext ==
    [exposure |-> "external", lifetime |-> 9, sensitivity |-> FALSE, system |-> FALSE]

\* All at once.  Only the files of a plain context change, and only the manifests
\* of a stored one, when they are read.
MCTexts == RacedTexts \cup KindTexts \cup StoredTexts
MCConfigs == RacedConfigs \cup KindConfigs
MCContexts == RacedContexts \cup KindContexts \cup {StoredContext}

Raced == context = PlainContext
Stored == context = StoredContext

MCInit ==
    /\ context \in MCContexts
    /\ CASE Raced -> text \in [Files -> RacedTexts] /\ config \in RacedConfigs
         [] Stored -> text \in [Files -> StoredTexts] /\ config = Toml(<<>>)
         [] OTHER -> /\ text \in [Files -> KindTexts] /\ config \in KindConfigs
                     /\ config = Toml(<<>>) \/ text[2] = <<>>
    /\ manifest \in (IF Stored THEN [Manifests -> Contents]
                     ELSE {[m \in Manifests |-> Nothing]})
    /\ InventoryInit

MCNext ==
    \/ FullAudit
    \/ Raced /\ Outside /\ text' \in [Files -> RacedTexts] /\ config' \in RacedConfigs
    \/ Stored /\ pc = "derive" /\ EditManifest
    \/ Ended

MCSpec == MCInit /\ [][MCNext]_allVars /\ WF_allVars(FullAudit)
=============================================================================
