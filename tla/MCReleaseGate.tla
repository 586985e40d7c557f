---------------------------- MODULE MCReleaseGate ----------------------------
(***************************************************************************)
(* Two instances of ReleaseGate: two sources that are edited into one      *)
(* another while checks fail and hang, and many small corpora that the     *)
(* benchmarks score, undisturbed.                                          *)
(***************************************************************************)
EXTENDS ReleaseGate

Use_(line, algorithm, purpose) ==
    [file |-> "app.py", line |-> line, algorithm |-> algorithm, purpose |-> purpose]
Label_(line, algorithm, purpose, targets) ==
    [file |-> "app.py", line |-> line, algorithm |-> algorithm, purpose |-> purpose,
     targets |-> targets]
Use(line, purpose) == Use_(line, "X25519", purpose)
Label(line, purpose, targets) == Label_(line, "X25519", purpose, targets)

Signing == <<"ML_DSA", "SLH_DSA">>
RightPlans ==
    [shor |-> {"X25519", "RSA"},
     targets |-> [p \in Purposes |->
        CASE p \in {"SIGNATURE", "CERTIFICATE"} -> Signing
          [] p \in {"KEY_ESTABLISHMENT", "ENCRYPTION"} -> <<"ML_KEM">>
          [] OTHER -> <<>>]]
Recommends(purpose, targets) == [RightPlans EXCEPT !.targets[purpose] = targets]

Case(labels, found) ==
    [labels |-> labels, found |-> found, repeated |-> found, valid |-> Formats]

Repository(found) ==
    [required |-> {<<"app.py", "X25519", "SIGNATURE", 1>>},
     found |-> found, repeated |-> found, minimum |-> 2,
     expected |-> {"pyjwt"}, dependencies |-> {"pyjwt", "cryptography"},
     parserErrors |-> 0, valid |-> Formats]

GoodCase == Case(<<Label(1, "SIGNATURE", Signing)>>,
                 <<Use(1, "SIGNATURE")>>)
GoodRepository == Repository(<<Use(1, "SIGNATURE"), Use(2, "SIGNATURE")>>)

Good == [wrong |-> {}, plans |-> RightPlans, synthetic |-> <<GoodCase>>,
         real |-> <<GoodCase>>, repositories |-> <<GoodRepository>>]

\* Sources that are edited into one another.
RacedContents == <<Good, [Good EXCEPT !.wrong = {"tests", "wheel_surface"}]>>

\* Each way a result may be bad but for its scores.
BrokenContents ==
    LET repo == GoodRepository
        Bad(r) == [Good EXCEPT !.repositories = <<GoodRepository, r>>]
    IN  <<Bad([repo EXCEPT !.parserErrors = 1]), Bad([repo EXCEPT !.dependencies = {}]),
          Bad([repo EXCEPT !.minimum = 3]), Bad([repo EXCEPT !.repeated = <<>>]),
          Bad([repo EXCEPT !.required = {<<"app.py", "X25519", "SIGNATURE", 3>>}]),
          Bad([repo EXCEPT !.valid = {"contract", "official"}]),
          [Good EXCEPT !.synthetic = <<[GoodCase EXCEPT !.valid = {"cyclonedx", "official"}]>>],
          [Good EXCEPT !.real = <<[GoodCase EXCEPT !.repeated = <<>>]>>]>>

\* Corpora of one case with up to two labels and two findings, under four
\* migration tables: the digits of a number choose them, 0 for no label.  A hash and
\* ML-KEM have no plan, and a label may contradict that.
KindLabels ==
    <<Label(1, "KEY_ESTABLISHMENT", <<"ML_KEM">>), Label(2, "KEY_ESTABLISHMENT", <<"ML_KEM">>),
      Label(1, "KEY_ESTABLISHMENT", NoTargets), Label(1, "ENCRYPTION", <<"ML_KEM">>),
      Label(1, "CERTIFICATE", Signing), Label_(1, "SHA-2/SHA-3", "HASHING", <<>>),
      Label_(1, "ML-KEM", "KEY_ESTABLISHMENT", <<"ML_KEM">>)>>
KindFindings ==
    << <<>>, <<Use(1, "KEY_ESTABLISHMENT")>>, <<Use(2, "KEY_ESTABLISHMENT")>>,
      <<Use(1, "KEY_ESTABLISHMENT"), Use(2, "KEY_ESTABLISHMENT")>>, <<Use(1, "ENCRYPTION")>>,
      <<Use(1, "CERTIFICATE")>>, <<Use_(1, "SHA-2/SHA-3", "HASHING")>>,
      <<Use_(1, "ML-KEM", "KEY_ESTABLISHMENT")>> >>
KindPlans ==
    <<RightPlans, Recommends("KEY_ESTABLISHMENT", <<"ML_DSA">>),
      Recommends("ENCRYPTION", <<"ML_KEM", "ML_DSA">>), Recommends("CERTIFICATE", <<"ML_KEM">>)>>

Chosen(items, digits) ==
    LET There(d) == d # 0
        some == SelectSeq(digits, There)
    IN  [i \in DOMAIN some |-> items[some[i]]]

KindContent(n) ==
    LET labels == Chosen(KindLabels, <<n % 8, (n \div 8) % 4>>)
        found == KindFindings[1 + ((n \div 32) % 8)]
    IN  [Good EXCEPT !.plans = KindPlans[1 + n \div 256],
                     !.synthetic = <<Case(labels, found)>>,
                     !.real = <<Case(labels, found), GoodCase>>]

Fixed == RacedContents \o BrokenContents
RacedSources == DOMAIN RacedContents
MCSources == 1..(Len(Fixed) + 1024)
MCContent == [s \in MCSources |->
    IF s <= Len(Fixed) THEN Fixed[s] ELSE KindContent(s - Len(Fixed) - 1)]
MCNoSource == 0

Raced == tree \in RacedSources

MCInit ==
    /\ Init /\ tools.zizmor = tools.git
    /\ ~Raced => tools.git /\ ~skipStandalone

MCNext ==
    \/ Top \/ Gate(2)
    \/ Raced /\ \E l \in Levels : Break(l) \/ Hang(l)
    \/ Raced /\ \E s \in RacedSources \ {tree} : Edit(s)
    \/ Finished

MCSpec == MCInit /\ [][MCNext]_vars /\ Fairness
=============================================================================
