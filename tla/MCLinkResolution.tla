-------------------------- MODULE MCLinkResolution -------------------------
(***************************************************************************)
(* Up to four files of one name, or two and one of another, in folders up  *)
(* to three deep, as that of the note.                                     *)
(***************************************************************************)
EXTENDS LinkResolution

MCFolders == {<<>>, <<"a">>, <<"b">>, <<"a", "a">>, <<"a", "b">>, <<"b", "b">>,
              <<"a", "a", "a">>}
NoteFolders == {<<>>, <<"a">>, <<"a", "a">>, <<"a", "a", "b">>}

File(folder, stem, ext) == [folder |-> folder, stem |-> stem, ext |-> ext]
Todos == {File(f, "todo", e) : f \in MCFolders, e \in {"md", "png"}}
         \cup {File(<<"a">>, "todo", NoExt)}

\* Every set of at most n of them.
UpTo(n, S) == UNION {{T : T \in kSubset(k, S)} : k \in 0..n}
FileSets == UpTo(4, Todos)
            \cup {T \cup {File(<<>>, "other", "md")} : T \in UpTo(2, Todos)}

Links == {AnchorOnly, File(<<>>, "todo", NoExt), File(<<>>, "todo", "md"),
          File(<<"a">>, "todo", NoExt)}

\* Tries from one candidate on, or for none.
Thresholds == {1, 9}

MCInputs ==
  {[files |-> SetToSeq(S), from |-> f, link |-> l, threshold |-> t] :
     S \in FileSets, f \in NoteFolders, l \in Links, t \in Thresholds}

=============================================================================
