----------------------------- MODULE ConfigValues -----------------------------
(***************************************************************************)
(* What a command is configured with (config/builder.rs, config/model.rs): *)
(* the values of the local config file before those of the global one,     *)
(* before the defaults. A scalar is taken on its own, a list whole. A      *)
(* directory is a place below the root of the file that names it, so that  *)
(* a global directory never becomes one of the project. One bad value      *)
(* rejects the whole configuration.                                        *)
(*                                                                         *)
(* A scope is what one file says: its root, a value or Unset for each key, *)
(* and the two lists. A command without a global file has an empty scope   *)
(* in its place.                                                           *)
(***************************************************************************)
EXTENDS TaskStatuses

CONSTANTS
  Unset,
  Rejected,
  Invalid,           \* the values the program refuses for a name or a directory
  InvalidTags,       \* and for a tag
  IsAbsolute(_)      \* the paths that name a place whatever the root

\* Keys whose value names a field of a note.
NameKeys == {"class_field", "title", "aliases", "tags", "created.name", "modified.name"}

Keys == NameKeys \cup {"created.format", "modified.format",
                       "templates.directory", "output_dir", "schemas.directory"}

DefaultOf(key) ==
  CASE key = "class_field" -> "class"
    [] key = "created.name" -> "date_created"
    [] key = "modified.name" -> "date_modified"
    [] key \in {"created.format", "modified.format"} -> "datetime"
    [] key = "schemas.directory" -> ".traces/schemas/"
    [] OTHER -> key

EmptyScope(root) ==
  [root |-> root, set |-> [k \in Keys |-> Unset], tag_filters |-> <<>>, statuses |-> <<>>]

MergeOptional(local, global, key) ==
  IF local.set[key] # Unset THEN local.set[key] ELSE global.set[key]

Merged(local, global, key) ==
  LET value == MergeOptional(local, global, key)
  IN IF value = Unset THEN DefaultOf(key) ELSE value

\* Mutant: the local list comes on top of the global one.
MergedListBoth(local, global) == global \o local

MergedList(local, global) == IF local = <<>> THEN global ELSE local

\* A directory below the root of the scope that names it.
Below(scope, key) ==
  IF scope.set[key] = Unset THEN Unset ELSE <<scope.root, scope.set[key]>>

OutputDirectory(local, global) ==
  LET dir == MergeOptional(local, global, "output_dir")
  IN CASE dir = Unset -> <<local.root, "">>
       [] dir # Unset /\ IsAbsolute(dir) -> <<"", dir>>
       [] OTHER -> <<local.root, dir>>

SchemaDirectory(local, global) ==
  LET key == "schemas.directory"
  IN CASE local.set[key] # Unset -> Below(local, key)
       [] local.set[key] = Unset /\ global.set[key] # Unset -> Below(global, key)
       [] OTHER -> <<local.root, DefaultOf(key)>>

\* The first bad value of those that are looked at; a template directory is
\* looked at in both scopes, all else only where it wins.
IsRejected(local, global) ==
  LET statuses == MergedList(local.statuses, global.statuses)
      filters == MergedList(local.tag_filters, global.tag_filters)
  IN \/ {local.set["templates.directory"], global.set["templates.directory"],
         SchemaDirectory(local, global)[2]} \cap Invalid # {}
     \/ \E k \in NameKeys : Merged(local, global, k) \in Invalid
     \/ \E n \in DOMAIN statuses : statuses[n].symbol \in Delimiters
     \/ \E n \in DOMAIN filters : filters[n] \in InvalidTags

Build(local, global) ==
  IF IsRejected(local, global) THEN Rejected
  ELSE [values |-> [k \in NameKeys \cup {"created.format", "modified.format"} |->
                      Merged(local, global, k)],
        local_templates |-> Below(local, "templates.directory"),
        global_templates |-> Below(global, "templates.directory"),
        output |-> OutputDirectory(local, global),
        schemas |-> SchemaDirectory(local, global),
        tag_filters |-> MergedList(local.tag_filters, global.tag_filters),
        statuses |-> Inserted(DefaultStatuses, MergedList(local.statuses, global.statuses))]
================================================================================
