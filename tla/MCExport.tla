------------------------------ MODULE MCExport -----------------------------
(* Export for TLC: Ann under her phone number and her LID, Bob, and a group. *)
EXTENDS Export, TLC

MCDirect == {"p", "l", "q"}
MCGroups == {"g"}
MCPhoneJids == {"p", "q"}
MCOrder == [p |-> 1, q |-> 2, l |-> 3, g |-> 4]
MCDigits == [p |-> "155", q |-> "166", l |-> "999", g |-> "120"]
MCFullJid == [p |-> "155@s", q |-> "166@s", l |-> "999@lid", g |-> "120@g"]

\* The LID's contact row carries the repaired phone.
MCCard == [p |-> "155", q |-> "none", l |-> "155", g |-> "none"]

\* Names that are equal, that differ in case alone, and that mimic a decorated
\* one; a file system may hold "Aen" equal to "Ann", which no plan expects.
MCNames == {<<>>, <<"Aen">>, <<"Ann", "155">>}
MCFirstNames ==
  {[p |-> <<"Ann">>, l |-> <<>>, q |-> <<"ANN">>, g |-> <<"Ann">>],
   [p |-> <<"Ann">>, l |-> <<"Ann", "155">>, q |-> <<"Ann">>, g |-> <<"Ann">>]}
MCAliases == {{"p", "l"}, {"q", "g"}}
MCBusy == {"l"}
MCNoteNames == {<<"ann">>, <<"Aen">>}

MCFlags == {[groups |-> TRUE, min |-> 0], [groups |-> FALSE, min |-> 2]}

Parts == {"Ann", "ANN", "ann", "Aen", "group"}
           \cup {MCDigits[j] : j \in DOMAIN MCDigits}
           \cup {MCFullJid[j] : j \in DOMAIN MCFullJid}
InOrder == <<"120", "120@g", "155", "155@s", "166", "166@s", "999", "999@lid",
             "ANN", "Aen", "Ann", "ann", "group">>
MCRank == [x \in Parts |-> CHOOSE i \in DOMAIN InOrder : InOrder[i] = x]
Folded(eq) == [x \in Parts |-> IF x \in eq THEN "ann" ELSE x]
MCFoldKeyOf == Folded({"Ann", "ANN"})
MCFileSystems == [bytes |-> Folded({}), folds |-> Folded({"Ann", "ANN", "Aen"})]

File(n, j) == [name |-> n, jid |-> j, closure |-> {j}, last |-> 1,
               holds |-> [k \in MCDirect \cup MCGroups |-> IF k = j THEN 1 ELSE 0],
               late |-> [k \in MCDirect \cup MCGroups |-> 0], cut |-> FALSE]

\* An empty directory; one of an earlier version, where the group sits at a
\* person's name and the LID's chat under its digits; one where notes hold
\* every name Ann could take.
MCVaults ==
  {{}, {File(<<"Ann">>, "g"), File(<<"999">>, "l")},
   {Note(<<"Ann">>), Note(<<"Ann", "155">>), Note(<<"Ann", "155@s">>)}}
=============================================================================
