------------------------------ MODULE CodeGen ------------------------------
(***************************************************************************)
(* `atrg generate` (crates/atrg-codegen, crates/atrg-cli): lexicon files   *)
(* are read one by one, and three Rust files are written one after the     *)
(* other, over those of an earlier generation.  Lexicons are edited and    *)
(* removed between and during generations; a generation may end anywhere.  *)
(* An identifier is the sequence of its words, whatever their case.        *)
(***************************************************************************)
EXTENDS Naturals, Sequences, SequencesExt

CONSTANTS
    Files,        \* paths of lexicon files
    Contents,     \* what a file may hold: a document, or broken JSON
    Snake,        \* the Rust name of a field
    Keywords,     \* the names that are none in Rust
    MaxEdits,     \* changes of a file (bound)
    MaxFaults     \* unlisted entries, failed writes, crashes (bound)

VARIABLES
    input,        \* the content of each file, or that there is none
    disk,         \* types.rs, routes.rs and mod.rs: absent, cut or their content
    job,          \* the generation: what it is at, its options, and what it has read
    \* History.
    before,       \* the disk when the generation began
    edits, faults

vars == <<input, disk, job, before, edits, faults>>

None == [is |-> "none"]

Options == [stubs : BOOLEAN, routes : BOOLEAN]

Init ==
    /\ input \in [Files -> Contents \cup {None}]
    /\ disk = [f \in {"types", "routes", "mod"} |-> [is |-> "absent"]]
    /\ job = [at |-> "idle", todo |-> {}, docs |-> <<>>, ended |-> "none",
              opts |-> [stubs |-> TRUE, routes |-> TRUE]]
    /\ before = disk /\ edits = 0 /\ faults = 0

-----------------------------------------------------------------------------
(* What is generated from the documents *)

\* parse_lexicon: a document of version 1 that has an identifier.
Parses(content) == content.is = "document" /\ content.lexicon = 1 /\ content.id # <<>>

\* property_to_rust_type: `type` is the types of a property and of its nested
\* items; the innermost array may have none.
RustBase(type) ==
    CASE type \in {"string", "cid-link"} -> "String"
      [] type = "integer" -> "i64"
      [] type = "boolean" -> "bool"
      [] OTHER -> "Value"

RustType(type, required) ==
    [option |-> ~required,
     vec |-> IF Last(type) = "array" THEN Len(type) ELSE Len(type) - 1,
     base |-> RustBase(Last(type))]

\* generate_struct: a member per property, read and written under the
\* property's own name.
Struct(name, schema) ==
    [name |-> name,
     members |-> {[json |-> p, rust |-> Snake[p],
                   type |-> RustType(schema.properties[p], p \in schema.required)] :
                  p \in DOMAIN schema.properties}]

\* The struct of one schema of a definition is named after the document and the
\* schema's part: that of a main record is called Record, that of a main object
\* nothing, and other records and objects by the definition.
Suffix(def, part) ==
    CASE part \in {"Params", "Input", "Output"} -> <<part>>
      [] def.name # "main" -> <<def.name>>
      [] part = "Record" -> <<"Record">>
      [] part = "Object" -> <<>>

\* LexiconDef: the schemas that a definition of each kind may have; none that is
\* looked at if the kind is not known.
Kinds == [record |-> {"Record"}, object |-> {"Object"}, query |-> {"Params", "Output"},
          procedure |-> {"Input", "Output"}, string |-> {}, token |-> {}, unknown |-> {}]

Parts(def) == DOMAIN def.schemas \cap Kinds[def.kind]

StructsOf(doc) ==
    UNION {{Struct(doc.id \o Suffix(def, part), def.schemas[part]) : part \in Parts(def)} :
           def \in doc.defs}

Mains(doc) == {def \in doc.defs : def.name = "main" /\ def.kind \in {"query", "procedure"}}

\* nsid_to_handler_name
HandlerName(nsid) == Last(nsid)

\* A route and its stub.
Route(doc, def) ==
    [nsid |-> doc.id, handler |-> HandlerName(doc.id),
     method |-> IF def.kind = "query" THEN "get" ELSE "post"]

RoutesOf(doc, opts) ==
    IF opts.stubs THEN SetToSeq({Route(doc, def) : def \in Mains(doc)}) ELSE <<>>

AllRoutes == FlattenSeq([i \in DOMAIN job.docs |-> RoutesOf(job.docs[i], job.opts)])

ListsRoutes == job.opts.routes /\ AllRoutes # <<>>

\* format_code leaves alone what is no Rust: the names would be keywords.
Formatted(names) == names \cap Keywords = {}

TypesFile ==
    LET structs == UNION {StructsOf(doc) : doc \in ToSet(job.docs)}
    IN  [is |-> "whole", structs |-> structs,
         formatted |-> Formatted(UNION {{m.rust : m \in s.members} : s \in structs})]

RoutesFile ==
    [is |-> "whole", routes |-> AllRoutes,
     formatted |-> Formatted({r.handler : r \in ToSet(AllRoutes)})]

ModFile ==
    [is |-> "whole", modules |-> {"types"} \cup IF ListsRoutes THEN {"routes"} ELSE {}]

-----------------------------------------------------------------------------
(* A generation *)

\* The command, or a build that calls generate with options of its own; without
\* the directory the command fails.
Begin(opts) ==
    /\ job.at = "idle"
    /\ \/ job' = [at |-> "reading", todo |-> {f \in Files : input[f] # None},
                  docs |-> <<>>, ended |-> "none", opts |-> opts]
       \/ /\ \A f \in Files : input[f] = None
          /\ job' = [job EXCEPT !.docs = <<>>, !.ended = "unread"]
    /\ before' = disk
    /\ UNCHANGED <<input, disk, edits, faults>>

Ends(how) == job' = [job EXCEPT !.at = "idle", !.todo = {}, !.ended = how]

\* A file is read and parsed; one that cannot be, or that was removed since it
\* was listed, ends the generation.
ReadFile(f) ==
    /\ job.at = "reading" /\ f \in job.todo
    /\ IF Parses(input[f])
       THEN job' = [job EXCEPT !.todo = @ \ {f}, !.docs = Append(@, input[f])]
       ELSE Ends("unread")
    /\ UNCHANGED <<input, disk, before, edits, faults>>

\* An entry of a directory that cannot be listed is passed over.
PassOver(f) ==
    /\ job.at = "reading" /\ f \in job.todo
    /\ faults < MaxFaults
    /\ job' = [job EXCEPT !.todo = @ \ {f}]
    /\ faults' = faults + 1
    /\ UNCHANGED <<input, disk, before, edits>>

\* All is read: nothing is written for nothing.
ReadAll ==
    /\ job.at = "reading" /\ job.todo = {}
    /\ IF job.docs = <<>> THEN Ends("ok") ELSE job' = [job EXCEPT !.at = "types"]
    /\ UNCHANGED <<input, disk, before, edits, faults>>

\* Mutant: mod.rs is written before the modules that it lists.
ModFirst(file) ==
    CASE file = "types" -> "mod"
      [] file = "mod" -> IF ListsRoutes THEN "routes" ELSE "idle"
      [] file = "routes" -> "idle"

\* The order in which the files are written.
After(file) ==
    CASE file = "types" -> IF ListsRoutes THEN "routes" ELSE "mod"
      [] file = "routes" -> "mod"
      [] file = "mod" -> "idle"

\* std::fs::write
WriteFile(file, content) ==
    /\ job.at = file
    /\ disk' = [disk EXCEPT ![file] = content]
    /\ IF After(file) = "idle" THEN Ends("ok") ELSE job' = [job EXCEPT !.at = After(file)]
    /\ UNCHANGED <<input, before, edits, faults>>

\* The file is not opened or not written to its end, or the process dies.
WriteFails(file) ==
    /\ job.at = file
    /\ faults < MaxFaults
    /\ disk' = [disk EXCEPT ![file] = [is |-> "cut"]] \/ UNCHANGED disk
    /\ Ends("unwritten")
    /\ faults' = faults + 1
    /\ UNCHANGED <<input, before, edits>>

\* Somebody edits, adds or removes a lexicon.
Edit(f, content) ==
    /\ edits < MaxEdits
    /\ input' = [input EXCEPT ![f] = content]
    /\ edits' = edits + 1
    /\ UNCHANGED <<disk, job, before, faults>>

Next ==
    \/ \E opts \in Options : Begin(opts)
    \/ \E f \in Files : ReadFile(f) \/ PassOver(f)
    \/ \E f \in Files, content \in Contents \cup {None} : Edit(f, content)
    \/ ReadAll
    \/ WriteFile("types", TypesFile) \/ WriteFile("routes", RoutesFile)
    \/ WriteFile("mod", ModFile)
    \/ \E file \in {"types", "routes", "mod"} : WriteFails(file)

Spec == Init /\ [][Next]_vars

-----------------------------------------------------------------------------
(* Properties *)

Whole(file) == disk[file].is = "whole"

\* Wherever a generation ended, now or earlier, a module that mod.rs lists has a
\* file.
ListedIsThere ==
    Whole("mod") => \A m \in disk["mod"].modules : disk[m].is # "absent"

\* A generation that failed before it wrote, or found no lexicon, has changed
\* nothing; one that ended well leaves files of one and the same reading of the
\* lexicons, whatever was edited meanwhile and whatever an earlier one left:
\* each of its main queries and procedures has one route, in the order of the
\* documents, if stubs and routes are wanted.
OneReading ==
    /\ job.ended = "unread" \/ job.docs = <<>> => disk = before
    /\ job.ended = "ok" /\ job.docs # <<>> =>
          /\ disk["types"] = TypesFile /\ disk["mod"] = ModFile
          /\ "routes" \in disk["mod"].modules =>
                LET routes == disk["routes"].routes
                    routed == {i \in DOMAIN job.docs : Mains(job.docs[i]) # {}}
                IN  \E of \in [DOMAIN routes -> routed] :
                        /\ \A m, n \in DOMAIN routes : m < n => of[m] < of[n]
                        /\ \A i \in routed : \E n \in DOMAIN routes : of[n] = i
                        /\ \A n \in DOMAIN routes : routes[n].nsid = job.docs[of[n]].id

\* An object of a document's schema has the struct generated for that schema,
\* and a struct reads every object that has the required members, with those of
\* the others that it has, and writes it back with the same members.
Reads(struct, object) == \A m \in struct.members : m.json \in object \/ m.type.option
Written(struct, object) == {m.json : m \in {n \in struct.members : n.json \in object}}
StructsReadTheirs ==
    Whole("types") /\ job.ended = "ok" =>
        \A doc \in ToSet(job.docs) : \A def \in doc.defs : \A part \in Parts(def) :
            LET schema == def.schemas[part]
                named == {s \in disk["types"].structs : s.name = doc.id \o Suffix(def, part)}
            IN  /\ named # {}
                /\ \A object \in SUBSET DOMAIN schema.properties :
                      schema.required \cap DOMAIN schema.properties \subseteq object =>
                          \E s \in named : Reads(s, object) /\ Written(s, object) = object

GeneratedHangsTogether == ListedIsThere /\ OneReading /\ StructsReadTheirs
=============================================================================
