------------------------- MODULE MCTemplateOutput -------------------------
(* Instances of TemplateOutput for TLC. *)
EXTENDS TemplateOutput, TLC

CONSTANTS a, b, out, daily, page, part, loop, p, q

\* daily.md, daily.txt and part.md; daily.txt has the stem of daily.md.
Md == <<"daily", "md">>
Txt == <<"daily", "txt">>
Part == <<"part", "md">>
MCFileName == {Md, Txt, Part}

\* A template that queries and includes a part that queries and declares an
\* output, one that asks where to write, and one that includes itself.
MCBody == [x \in {daily, page, part, loop} |->
  CASE x = daily -> <<[op |-> "query"],
                      [op |-> "include", name |-> <<"part">>, ignore |-> TRUE]>>
    [] x = page -> <<[op |-> "ask"], [op |-> "write_to", text |-> "answer"]>>
    [] x = part -> <<[op |-> "write_to", text |-> a], [op |-> "query"]>>
    [] x = loop -> <<[op |-> "file_include", text |-> a],
                     [op |-> "include", name |-> Md, ignore |-> FALSE]>>]

MCDefaultOutput == [s \in {<<"daily">>, <<"part">>} |-> IF s = <<"daily">> THEN out ELSE b]

Holds(program) == [program |-> program, link |-> FALSE]
Tree(localMd, localTxt, globalMd, globalPart) ==
  <<[f \in MCFileName |-> CASE f = Md -> localMd [] f = Txt -> localTxt [] OTHER -> NoEntry],
    [f \in MCFileName |-> CASE f = Md -> globalMd [] f = Part -> globalPart [] OTHER -> NoEntry]>>

MCInitialTree ==
  {Tree(Holds(daily), NoEntry, Holds(loop), Holds(part)),
   Tree(NoEntry, NoEntry, Holds(page), NoEntry),
   Tree(Holds(loop), Holds(page), Holds(daily), NoEntry)}

MCEntry == {Holds(daily), Holds(loop), Holds(part), Holds(page), [program |-> daily, link |-> TRUE]}

Renders(name, requested, force, dry, provider, texts) ==
  [name |-> name, requested |-> requested, force |-> force, dry |-> dry,
   provider |-> provider, texts |-> texts]

Picked   == Renders(NoName, NoText, FALSE, FALSE, "terminal", <<>>)
Replayed == Renders(<<"daily">>, NoText, FALSE, FALSE, "preset", <<b, a>>)
Silent   == Renders(<<"daily">>, b, FALSE, FALSE, "preset", <<>>)
Forced   == Renders(Md, NoText, TRUE, FALSE, "preset", <<>>)
Dry      == Renders(Md, NoText, FALSE, TRUE, "terminal", <<>>)
Unnamed  == Renders(<<>>, NoText, FALSE, FALSE, "preset", <<>>)

MCInitialFiles == <<a>>

\* Who runs beside whom.
MCCommand ==
  {[x \in Proc |-> IF x = p THEN c[1] ELSE c[2]] : c \in
    {<<Picked, Silent>>, <<Replayed, Forced>>, <<Forced, Forced>>,
     <<Dry, Unnamed>>}}
=============================================================================
