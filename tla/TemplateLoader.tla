-------------------------- MODULE TemplateLoader ---------------------------
(* Names of templates and what a directory has for them: template/path.rs    *)
(* and template/loader.rs.                                                   *)
(*                                                                           *)
(* A file name is the sequence of its segments between dots: "v1.2.md" is    *)
(* <<"v1", "2", "md">>. The empty sequence stands for the identifiers that   *)
(* TemplatePathInput::parse refuses.                                         *)
EXTENDS Naturals, Sequences

CONSTANTS
  Directory,  \* positions in the search path: 1 is local, 2 is global
  FileName,   \* names a file of a template directory may have
  NoEntry     \* no entry of that name

IsValid(name) == name # <<>>

HasExtension(name) == Len(name) > 1

Stem(name) == IF HasExtension(name) THEN SubSeq(name, 1, Len(name) - 1) ELSE name

\* An entry is the program in the file, and whether it is a symlink to it.
IsFile(entries, name) == entries[name] # NoEntry /\ ~entries[name].link

\* The files find_name_in collects for a name without an extension.
Hits(entries, key) == {f \in FileName : IsFile(entries, f) /\ Stem(f) = key}

\* stems_in: links are left out, as in the search.
StemsIn(entries) ==
  {Stem(f) : f \in {g \in FileName : /\ IsFile(entries, g)
                                     /\ HasExtension(g) /\ g[Len(g)] = "md"}}

\* What --list prints and the picker offers.
ListAvailable(tree) == UNION {StemsIn(tree[d]) : d \in Directory}
=============================================================================
