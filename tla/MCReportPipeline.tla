-------------------------- MODULE MCReportPipeline --------------------------
(* Model checking ReportPipeline: the clones, the answers and the points.  *)
EXTENDS ReportPipeline, TLC

-----------------------------------------------------------------------------
(* The operators on lists, beside those of the community modules           *)

ASSUME ListingAssumption ==
    LET numbers == UNION {[1..n -> 1..3] : n \in 0..4}
        lists   == UNION {[1..n -> {<<>>, <<1>>, <<2, 1>>}] : n \in 0..3}
        bySeverity(s) == [i \in DOMAIN s |-> [severity |-> s[i], place |-> i]]
    IN  /\ \A s \in numbers : \A kept \in SUBSET (1..3) :
              Only(s, kept) = SelectSeq(s, LAMBDA x : x \in kept)
        /\ \A s \in numbers :
              /\ Distinct(s) = FoldLeft(LAMBDA acc, x : IF Contains(acc, x) THEN acc
                                                        ELSE Append(acc, x), <<>>, s)
              /\ SortedDescending(bySeverity(s)) =
                    FoldLeft(LAMBDA acc, w : acc \o SelectSeq(bySeverity(s),
                                                              LAMBDA x : x.severity = w),
                             <<>>, <<3, 2, 1>>)
        /\ \A s \in lists : Flatten(s) = FlattenSeq(s)

-----------------------------------------------------------------------------
(* Syntax nodes, import statements and files                               *)

Node(type, text) == [type |-> type, text |-> text, named |-> TRUE, lines |-> 5,
                     params |-> 0, entry |-> FALSE]

Function      == Node("function_definition", None)
EntryPoint    == [Function EXCEPT !.entry = TRUE, !.params = 2]
LongFunction  == [Function EXCEPT !.lines = 301]

\* Two modules that import each other across layers, a package, a dot import of Go, a
\* library, and one that validates.
Statement == [dotted |-> FALSE, root |-> "none", mentions |-> {}, layer |-> "none",
              validates |-> FALSE]

MCImport == [from_api    |-> [Statement EXCEPT !.root = "app", !.mentions = {"app/api.py"},
                                               !.layer = "api"],
             from_domain |-> [Statement EXCEPT !.root = "app", !.mentions = {"app/domain.py"},
                                               !.layer = "domain"],
             from_app    |-> [Statement EXCEPT !.root = "app"],
             dot_spec    |-> [Statement EXCEPT !.dotted = TRUE],
             library     |-> Statement,
             pydantic    |-> [Statement EXCEPT !.validates = TRUE]]

File(ext) == [ext |-> ext, oversize |-> FALSE, test |-> FALSE, dangling |-> FALSE,
              broken |-> FALSE, tree |-> <<>>, root |-> "none", layer |-> "none",
              dirs |-> {}, service |-> FALSE, naming |-> "plain", secrets |-> {},
              auth |-> {}, sql |-> FALSE, insecure |-> FALSE]

Import1(t) == Node("import_statement", t)

MCSource ==
    ("README.md"     :> File(".md")) @@
    ("link.py"       :> [File(".py") EXCEPT !.dangling = TRUE]) @@
    ("Main.java"     :> File(".java")) @@
    ("view.js"       :> [File(".js") EXCEPT !.tree = <<Node("export_statement", None),
                                                       Node("function_declaration", None)>>]) @@
    ("bundle.js"     :> [File(".js") EXCEPT !.oversize = TRUE]) @@
    ("main.go"       :> [File(".go") EXCEPT !.tree = <<Node("import_declaration", "library"),
                                                       Node("import_spec", "dot_spec")>>]) @@
    ("index.ts"      :> [File(".ts") EXCEPT !.tree = <<Node("export_statement", None),
                                                       Node("function_declaration", None)>>]) @@
    ("broken.py"     :> [File(".py") EXCEPT !.broken = TRUE, !.tree = <<Function>>]) @@
    ("tool.py"       :> [File(".py") EXCEPT !.naming = "snake", !.tree = <<Function>>]) @@
    ("tool_test.py"  :> [File(".py") EXCEPT !.naming = "snake", !.test = TRUE,
                                            !.tree = <<Import1("library"), Function>>]) @@
    ("settings.py"   :> [File(".py") EXCEPT !.insecure = TRUE, !.secrets = {"password"}]) @@
    ("app/api.py"    :> [File(".py") EXCEPT !.root = "app", !.layer = "api",
                                            !.dirs = {"controllers"}, !.sql = TRUE,
                                            !.auth = {"no_verify"},
                                            !.tree = <<Import1("from_domain"), EntryPoint>>]) @@
    ("app/domain.py" :> [File(".py") EXCEPT !.root = "app", !.layer = "domain",
                                            !.dirs = {"models"}, !.secrets = {"password", "api_key"},
                                            !.tree = <<Import1("from_api"), Import1("from_app"),
                                                       Import1("pydantic"), LongFunction>>]) @@
    ("app/other.py"  :> [File(".py") EXCEPT !.root = "app",
                                            !.tree = <<Import1("from_domain")>>]) @@
    ("domain/core.py" :> [File(".py") EXCEPT !.root = "domain", !.dirs = {"domain"}]) @@
    ("camelCase.js"  :> [File(".js") EXCEPT !.naming = "camel"]) @@
    ("snake_too.py"  :> [File(".py") EXCEPT !.naming = "snake"])

MCRepositories ==
    {<<>>,                                                  \* no file at all
     <<"link.py">>,
     <<"README.md", "Main.java", "bundle.js">>,             \* nothing to parse
     <<"broken.py", "index.ts">>,                           \* nothing that parses
     <<"tool.py", "tool_test.py", "view.js">>,                        \* no finding
     <<"README.md", "settings.py", "broken.py", "main.go">>,
     <<"app/api.py", "app/domain.py", "tool.py">>,          \* every rule
     <<"app/other.py", "app/api.py", "link.py", "app/domain.py">>,
     <<"index.ts", "app/api.py", "README.md", "tool.py", "settings.py", "app/domain.py">>,
     <<"domain/core.py", "tool.py">>,                       \* names a missing member
     <<"camelCase.js", "tool.py", "snake_too.py">>}

-----------------------------------------------------------------------------
(* Gemini's answers: usable with and without texts, too short, no JSON     *)

Text(description, hint) == [description |-> description, hint |-> hint]

NoTexts == [id \in {} |-> None]

MCArchitectureAnswers ==
    LET answer == [form |-> "object", narrative |-> 80, strengths |-> 2, coupling |-> 0,
                   texts |-> NoTexts, tokens |-> 1]
    IN  {answer,
         [answer EXCEPT !.strengths = 0, !.coupling = 40,
                        !.texts = (<<"AW", 1>> :> Text(50, 5)) @@ (<<"AW", 9>> :> Text(50, 50))],
         [answer EXCEPT !.narrative = 20],
         [answer EXCEPT !.form = "array"]}

MCSecurityAnswers ==
    LET answer == [form |-> "object", narrative |-> 80, texts |-> NoTexts, tokens |-> 1]
    IN  {answer,
         [answer EXCEPT !.texts = (<<"SF", 1>> :> Text(5, 40)) @@ (<<"SF", 2>> :> Text(40, 0))],
         [answer EXCEPT !.texts = <<"SF", 1>> :> Text(40, 5)],
         [answer EXCEPT !.form = "text"]}

MCRecommendationAnswers ==
    LET answer == [form |-> "object", summary |-> 150, steps |-> 12, texts |-> NoTexts,
                   tokens |-> 1]
    IN  {answer,
         [answer EXCEPT !.steps = 3,
                        !.texts = <<"REC", 1>> :> [text |-> 50, rationale |-> 5, context |-> 20]],
         [answer EXCEPT !.steps = 2],
         [answer EXCEPT !.summary = 60]}

-----------------------------------------------------------------------------
(* The knowledge base                                                      *)

MCPointInfo == [a1 |-> [domain |-> "ARCHITECTURE", excerpt |-> 200],
                a2 |-> [domain |-> "ARCHITECTURE", excerpt |-> 200],
                s1 |-> [domain |-> "SECURITY", excerpt |-> 200],
                s2 |-> [domain |-> "SECURITY", excerpt |-> 200]]

MCPoints == DOMAIN MCPointInfo

=============================================================================
