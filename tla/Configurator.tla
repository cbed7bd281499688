---------------------------- MODULE Configurator ----------------------------
(***************************************************************************)
(* mirageconfig (tools/mirageconfig): the schema of the build options, the *)
(* commands that read, resolve, check and write a configuration, the menu  *)
(* in its full-screen and its line form, and the artifacts the build takes *)
(* from them. A schema file is a sequence of tables, a configuration file  *)
(* a sequence of lines [kind, symbol, raw]; a raw text is one of a few     *)
(* strings. The schemas are a slice of config/MirageConfig.toml and one    *)
(* with the types the shipped options do not use yet.                      *)
(***************************************************************************)
EXTENDS Integers, Sequences, FiniteSets

CONSTANTS Body,        \* TUI_BODY_ROWS
          Heights,     \* the rows render may have for its body
          MaxCommands, \* bound on the commands of a behaviour
          None         \* a key that is missing

VARIABLES schema,      \* the options of the schema file, None when it was refused
          config,      \* lines of mirage.conf, or None
          defconfig,   \* lines of mirage.defconfig, or None
          artifacts,   \* what generate_artifacts wrote, by file
          menu,        \* the open menu, or None
          status,      \* how the last command ended
          written,     \* history: the values config was written from, or None
          reduced,     \* history: the values defconfig was written from, or None
          made,        \* history: the artifacts are of the present config
          commands     \* history: how many commands were run

vars == <<schema, config, defconfig, artifacts, menu, status, written, reduced, made, commands>>

-----------------------------------------------------------------------------
(* Values: a variant and, as a string, what it holds *)

Value(ty, v) == [ty |-> ty, v |-> v]
Bool(b) == Value("bool", IF b THEN "y" ELSE "n")

is_enabled(x) ==
    CASE x.ty = "bool" -> x.v = "y"
      [] x.ty = "tristate" -> x.v \in {"y", "m"}
      [] x.ty = "string" -> x.v # ""
      [] OTHER -> x.v # "0"

\* value_enabled; every symbol of the opts has a value.
value_enabled(values, symbol) == symbol \in DOMAIN values /\ is_enabled(values[symbol])

\* The text of a number, and a string in quotes: the raw texts of the model. "two lines"
\* is a string with a line break, which somebody types as \n between the quotes.
Decimal == [raw \in {"0", "7"} |-> raw]
Hexadecimal == [raw \in {"0x0", "0x7"} |-> IF raw = "0x0" THEN "0" ELSE "7"]
Quoted == [raw \in {"'empty'", "'word'", "'two lines'"} |->
              CASE raw = "'empty'" -> "" [] raw = "'word'" -> "word" [] OTHER -> "two lines"]
TextOf(f, x) == CHOOSE raw \in DOMAIN f : f[raw] = x

\* The break itself is not escaped: the text goes into the file as it is.
to_config_text(x) ==
    CASE x.ty \in {"bool", "tristate"} -> x.v
      [] x.ty = "string" -> TextOf(Quoted, x.v)
      [] x.ty = "int" -> TextOf(Decimal, x.v)
      [] OTHER -> TextOf(Hexadecimal, x.v)

\* None stands for an error. A hex option takes decimal digits as well.
parse_config_value(ty, raw) ==
    CASE ty = "bool" /\ raw \in {"y", "Y", "1", "true"} -> Bool(TRUE)
      [] ty = "bool" /\ raw \in {"n", "N", "0", "false"} -> Bool(FALSE)
      [] ty = "tristate" /\ raw \in {"y", "m", "n"} -> Value(ty, raw)
      [] ty = "string" /\ raw \in DOMAIN Quoted -> Value(ty, Quoted[raw])
      [] ty \in {"int", "hex"} /\ raw \in DOMAIN Decimal -> Value(ty, Decimal[raw])
      [] ty = "hex" /\ raw \in DOMAIN Hexadecimal -> Value(ty, Hexadecimal[raw])
      [] OTHER -> None

value_matches_type(ty, x) == x.ty = ty

-----------------------------------------------------------------------------
(* The opts *)

\* A table: a default is [t, v] by its TOML type; None for a key that is not there.
Table(symbol, type, category, default, depends_on, selects, visible_if, feature) ==
    [symbol |-> symbol, type |-> type, category |-> category, default |-> default,
     depends_on |-> depends_on, selects |-> selects, visible_if |-> visible_if,
     cargo_feature |-> feature]
Flag(b) == [t |-> "bool", v |-> IF b THEN "true" ELSE "false"]

parse_default(ty, toml) ==
    CASE ty = "bool" /\ toml.t = "bool" -> Bool(toml.v = "true")
      [] ty = "tristate" /\ toml.t = "string" /\ toml.v \in {"y", "m", "n"} -> Value(ty, toml.v)
      [] ty = "string" /\ toml.t = "string" -> Value(ty, toml.v)
      [] ty = "int" /\ toml.t = "int" -> Value(ty, toml.v)
      [] ty = "hex" /\ toml.t \in {"hex", "int"} -> Value(ty, toml.v)
      [] OTHER -> None

TableParses(table) ==
    /\ None \notin {table.symbol, table.category, table.default}
    /\ table.type \in {"bool", "tristate", "string", "int", "hex"}
    /\ parse_default(table.type, table.default) # None

\* parse_schema_toml: the options in the order of the file, or None.
parse_schema_toml(tables) ==
    IF \/ \E i \in DOMAIN tables : ~TableParses(tables[i])
       \/ \E i, j \in DOMAIN tables : i # j /\ tables[i].symbol = tables[j].symbol
    THEN None
    ELSE [i \in DOMAIN tables |->
            [tables[i] EXCEPT !.default = parse_default(tables[i].type, tables[i].default)]]

Symbols(opts) == {opts[i].symbol : i \in DOMAIN opts}
Get(opts, symbol) == opts[CHOOSE i \in DOMAIN opts : opts[i].symbol = symbol]
defaults(opts) == [s \in Symbols(opts) |-> Get(opts, s).default]

\* select_cycles: a symbol that selects itself in some steps. The depth-first search
\* visits what a symbol reaches; Reached[k] is what it reaches in at most k steps.
select_cycles(opts) ==
    LET selected(S) == UNION {Get(opts, s).selects : s \in S \cap Symbols(opts)}
        Reached[k \in 0 .. Len(opts), s \in Symbols(opts)] ==
            IF k = 0 THEN Get(opts, s).selects
            ELSE Reached[k - 1, s] \cup selected(Reached[k - 1, s])
    IN {s \in Symbols(opts) : s \in Reached[Len(opts), s]}

\* The empty prompt, category or help text is the category "" here.
validate(opts) ==
    /\ \A i \in DOMAIN opts :
          /\ opts[i].category # "" /\ value_matches_type(opts[i].type, opts[i].default)
          /\ opts[i].depends_on \cup opts[i].selects \cup opts[i].visible_if \subseteq Symbols(opts)
    /\ select_cycles(opts) = {}

-----------------------------------------------------------------------------
(* Configurations: functions from the symbols to values *)

\* A line of read_config. "# X is not set" gives false to an option of any type; a
\* comment is no line of the model; anything else without = is an error.
ReadLine(opts, values, line) ==
    IF values = None \/ line.kind = "junk" THEN None
    ELSE IF line.kind = "unset"
    THEN IF line.symbol \in DOMAIN values THEN [values EXCEPT ![line.symbol] = Bool(FALSE)] ELSE values
    ELSE IF line.symbol \notin DOMAIN values THEN None
    ELSE LET x == parse_config_value(Get(opts, line.symbol).type, line.raw)
         IN IF x = None THEN None ELSE [values EXCEPT ![line.symbol] = x]

read_config(opts, lines) ==
    LET upto[i \in 0 .. Len(lines)] ==
            IF i = 0 THEN defaults(opts) ELSE ReadLine(opts, upto[i - 1], lines[i])
    IN upto[Len(lines)]

\* read_config_if_present over the defaults.
Present(opts, lines) == IF lines = None THEN defaults(opts) ELSE read_config(opts, lines)

Line(kind, symbol, raw) == [kind |-> kind, symbol |-> symbol, raw |-> raw]
LinesOf(symbol, x) ==
    IF x = Bool(FALSE) THEN <<Line("unset", symbol, "")>>
    ELSE IF x = Value("string", "two lines") THEN <<Line("set", symbol, "'two"), Line("junk", "", "lines'")>>
    ELSE <<Line("set", symbol, to_config_text(x))>>

\* Mutant: the minimal file leaves out everything that is not enabled.
write_enabled(opts, values, minimal) ==
    LET upto[i \in 0 .. Len(opts)] ==
            IF i = 0 THEN <<>>
            ELSE IF minimal /\ ~is_enabled(values[opts[i].symbol]) THEN upto[i - 1]
            ELSE upto[i - 1] \o LinesOf(opts[i].symbol, values[opts[i].symbol])
    IN upto[Len(opts)]

write_config(opts, values, minimal) ==
    LET upto[i \in 0 .. Len(opts)] ==
            IF i = 0 THEN <<>>
            ELSE IF minimal /\ values[opts[i].symbol] = opts[i].default THEN upto[i - 1]
            ELSE upto[i - 1] \o LinesOf(opts[i].symbol, values[opts[i].symbol])
    IN upto[Len(opts)]

\* What a select makes of its target.
Selected(target) == CASE target.type = "bool" -> Bool(TRUE)
                      [] target.type = "tristate" -> Value("tristate", "y")
                      [] OTHER -> target.default
SelectAll(opts, values, targets) ==
    [s \in DOMAIN values |-> IF s \in targets THEN Selected(Get(opts, s)) ELSE values[s]]

\* One pass over the options; what one selects counts for the options behind it at once.
\* All a pass does is to select: `done` holds the targets so far.
SelectPass(opts, values, done) ==
    LET upto[i \in 0 .. Len(opts)] ==
            IF i = 0 THEN done
            ELSE LET before == upto[i - 1]
                     s == opts[i].symbol
                     x == IF s \in before THEN Selected(opts[i]) ELSE values[s]
                 IN IF is_enabled(x) THEN before \cup opts[i].selects ELSE before
    IN upto[Len(opts)]

\* resolve_selects: passes until one changes nothing, None when the last one it allows
\* itself, one more than there are options, still does.
resolve_selects(opts, values) ==
    LET n == Len(opts) + 1
        after[k \in 0 .. n] == IF k = 0 THEN {} ELSE UNION {SelectPass(opts, values, done) : done \in {after[k - 1]}}
        resolved == SelectAll(opts, values, after[n])
    IN IF resolved = SelectAll(opts, values, after[n - 1]) THEN resolved ELSE None

deps_satisfied(opt, values) == \A s \in opt.depends_on : value_enabled(values, s)
option_visible(opt, values) == \A s \in opt.visible_if : value_enabled(values, s)

\* The symbols of `values` are the opts's, so the strict form finds nothing more.
validate_values(opts, values) ==
    \A i \in DOMAIN opts :
        /\ value_matches_type(opts[i].type, values[opts[i].symbol])
        /\ is_enabled(values[opts[i].symbol]) => deps_satisfied(opts[i], values)

-----------------------------------------------------------------------------
(* The artifacts of the build *)

cargo_features(opts, values) ==
    {opts[i].cargo_feature : i \in {j \in DOMAIN opts : value_enabled(values, opts[j].symbol)}} \ {None}

\* The options that kernel_cmdline and the QEMU arguments ask for by name.
FlagSymbols == {"FULL_BOOT", "VERBOSE_BOOT", "DEBUG", "TRACE_IPC", "HW_FRAMEBUFFER",
                "SERIAL_CONSOLE", "QEMU_DEBUG"}
build_flags(values) == {s \in FlagSymbols : value_enabled(values, s)}

NoArtifacts == [generated |-> None, features |-> None, flags |-> None]

\* generate_artifacts writes three files in turn; `fails` is the write that fails.
generate_artifacts(opts, values, fails) ==
    LET features == cargo_features(opts, values)
        flags == build_flags(values)
        generated == [constants |-> values, features |-> features, flags |-> flags]
    IN CASE fails = "generated" -> artifacts
         [] fails = "features" -> [artifacts EXCEPT !.generated = generated]
         [] fails = "flags" -> [artifacts EXCEPT !.generated = generated, !.features = features]
         [] OTHER -> [generated |-> generated, features |-> features, flags |-> flags]
\* --generate or not, with the write that fails.
Endings == {<<FALSE, "none">>, <<FALSE, "config">>}
               \cup {<<TRUE, w>> : w \in {"none", "config", "generated", "features", "flags"}}

Ends(how) == status' = how
Fail(how) == Ends(how) /\ UNCHANGED <<config, defconfig, artifacts, written, reduced, made>>

\* The end of every command that takes --generate.
Generate(opts, values, generate, fails) ==
    IF generate
    THEN /\ artifacts' = generate_artifacts(opts, values, fails)
         /\ Ends(IF fails \in {"generated", "features", "flags"} THEN "io error" ELSE "ok")
         /\ made' = (status' = "ok")
    ELSE Ends("ok") /\ UNCHANGED artifacts

\* resolve, validate, write mirage.conf, generate: the end of --defconfig, --oldconfig and
\* a saved menu. A failing fs::write leaves the old file, or an empty one.
Commit(opts, values, generate, fails) ==
    LET resolved == resolve_selects(opts, values)
    IN IF resolved = None THEN Fail("did not converge")
       ELSE IF ~validate_values(opts, resolved) THEN Fail("invalid")
       ELSE IF fails = "config"
       THEN \/ Fail("io error")
            \/ /\ config' = <<>> /\ written' = None /\ made' = FALSE
               /\ Ends("io error") /\ UNCHANGED <<defconfig, artifacts, reduced>>
       ELSE /\ config' = write_config(opts, resolved, FALSE)
            /\ written' = resolved
            /\ Generate(opts, resolved, generate, fails)
            /\ ~generate => made' = FALSE
            /\ UNCHANGED <<defconfig, reduced>>

-----------------------------------------------------------------------------
(* The commands of run *)

\* run starts with Schema::parse and validate of the same file every time: `schema` is
\* what they make of it.
Load(tables) == LET opts == parse_schema_toml(tables)
                IN IF opts # None /\ validate(opts) THEN opts ELSE None
SchemaOk == schema # None
Command == /\ menu = None /\ commands < MaxCommands
           /\ commands' = commands + 1 /\ UNCHANGED <<schema, menu>>

BadSchema == Command /\ ~SchemaOk /\ Fail("bad schema")

Defconfig(generate, fails) ==
    Command /\ SchemaOk /\ Commit(schema, defaults(schema), generate, fails)

Oldconfig(generate, fails) ==
    LET values == Present(schema, config)
    IN /\ Command /\ SchemaOk
       /\ IF values = None THEN Fail("unreadable") ELSE Commit(schema, values, generate, fails)

\* --check and --savedefconfig need the file to be there.
Parsed == IF config = None THEN None ELSE read_config(schema, config)

Check(generate, fails) ==
    LET parsed == Parsed
        resolved == resolve_selects(schema, parsed)
    IN /\ Command /\ SchemaOk
       /\ IF parsed = None THEN Fail("unreadable")
          ELSE IF ~validate_values(schema, parsed) THEN Fail("invalid")
          ELSE IF resolved = None THEN Fail("did not converge")
          ELSE IF ~validate_values(schema, resolved) THEN Fail("invalid")
          ELSE /\ Generate(schema, resolved, generate, fails)
               /\ ~generate => UNCHANGED made
               /\ UNCHANGED <<config, defconfig, written, reduced>>

Savedefconfig(generate, fails) ==
    LET parsed == Parsed
        resolved == resolve_selects(schema, parsed)
    IN /\ Command /\ SchemaOk
       /\ IF parsed = None THEN Fail("unreadable")
          ELSE IF resolved = None THEN Fail("did not converge")
          ELSE IF ~validate_values(schema, resolved) THEN Fail("invalid")
          ELSE IF fails = "config"
          THEN \/ Fail("io error")
               \/ /\ defconfig' = <<>> /\ reduced' = None /\ Ends("io error")
                  /\ UNCHANGED <<config, artifacts, written, made>>
          ELSE /\ defconfig' = write_config(schema, resolved, TRUE)
               /\ reduced' = resolved
               /\ Generate(schema, resolved, generate, fails)
               /\ ~generate => UNCHANGED made
               /\ UNCHANGED <<config, written>>

-----------------------------------------------------------------------------
(* The menu: a row is [kind, at], `at` the position of an option, for a    *)
(* category the one of its first option.                                   *)

InOrder(S) == [k \in 1 .. Cardinality(S) |-> CHOOSE i \in S : Cardinality({j \in S : j < i}) = k - 1]
RowsOf(kind, S) == [k \in 1 .. Cardinality(S) |-> [kind |-> kind, at |-> InOrder(S)[k]]]
categories(opts) == {i \in DOMAIN opts : \A j \in 1 .. i - 1 : opts[j].category # opts[i].category}
Found(opt, word) == word \in {opt.symbol, opt.category}

visible_rows(opts, m) ==
    LET shown == {i \in DOMAIN opts : option_visible(opts[i], m.values)}
        of(c) == {i \in shown : opts[i].category = c}
    IN IF m.search # "" THEN RowsOf("option", {i \in shown : Found(opts[i], m.search)})
       ELSE IF m.current_menu # None
       THEN <<[kind |-> "back", at |-> 0]>> \o RowsOf("option", of(m.current_menu))
       ELSE RowsOf("category", {i \in categories(opts) : of(opts[i].category) # {}})

NewMenu(mode, values) ==
    [mode |-> mode, values |-> values, current_menu |-> None, cursor |-> 0, scroll |-> 0,
     search |-> "", dirty |-> FALSE, edited |-> FALSE]
Top(m) == [m EXCEPT !.cursor = 0, !.scroll = 0]

clamp_cursor(m, len) ==
    IF len = 0 THEN Top(m) ELSE IF m.cursor >= len THEN [m EXCEPT !.cursor = len - 1] ELSE m
keep_cursor_visible(m) ==
    IF m.cursor < m.scroll THEN [m EXCEPT !.scroll = m.cursor]
    ELSE IF m.cursor >= m.scroll + Body THEN [m EXCEPT !.scroll = m.cursor + 1 - Body] ELSE m
move_cursor(m, len, delta) ==
    LET to == m.cursor + delta
    IN IF len = 0 THEN m
       ELSE [m EXCEPT !.cursor = IF to < 0 THEN 0 ELSE IF to >= len THEN len - 1 ELSE to]

\* Mutant: the rows are not counted again before the menu is drawn.
draw_as_is(opts, m) == keep_cursor_visible(m)

\* The head of run_tui's loop, before the menu is drawn and the next key read.
Redraw(opts, m) == keep_cursor_visible(clamp_cursor(m, Len(visible_rows(opts, m))))

\* The rows render draws when it has `body` rows: it moves its own copy of scroll.
render(m, len, body) ==
    LET above == IF m.cursor < m.scroll THEN m.cursor ELSE m.scroll
        scroll == IF m.cursor >= above + body THEN m.cursor + 1 - body ELSE above
        end == IF scroll + body < len THEN scroll + body ELSE len
    IN scroll .. end - 1

\* apply_selects_from: what the option selects and, where that changed something, what
\* that selects in turn.
apply_selects_from(opts, values, symbol) ==
    LET changed(S) == {t \in UNION {Get(opts, s).selects : s \in S} : values[t] # Selected(Get(opts, t))}
        followed[k \in 0 .. Len(opts)] == IF k = 0 THEN {symbol} ELSE followed[k - 1] \cup changed(followed[k - 1])
    IN SelectAll(opts, values, UNION {Get(opts, s).selects : s \in followed[Len(opts)]})

\* The value an option gets, and what goes with it. history: edited.
SetOption(opts, m, symbol, x) ==
    LET stored == [m.values EXCEPT ![symbol] = x]
        values == IF is_enabled(x) THEN apply_selects_from(opts, stored, symbol) ELSE stored
    IN [m EXCEPT !.values = values, !.dirty = TRUE, !.edited = @ \/ values # m.values]

\* The next value goes by the variant of the present one, not by the type of the option;
\* for a string or a number the user types `raw`, and keeps the value if it does not parse.
toggle_option(opts, m, i, raw) ==
    LET opt == opts[i]
        x == m.values[opt.symbol]
        parsed == parse_config_value(opt.type, raw)
        next == CASE x.ty = "bool" -> Bool(x.v = "n")
                  [] x.ty = "tristate" -> Value("tristate", CASE x.v = "n" -> "m" [] x.v = "m" -> "y" [] OTHER -> "n")
                  [] OTHER -> IF parsed = None THEN x ELSE parsed
    IN IF deps_satisfied(opt, m.values) THEN SetOption(opts, m, opt.symbol, next) ELSE m

reverse_option(opts, m, i) ==
    LET opt == opts[i]
        x == m.values[opt.symbol]
        next == IF x.ty = "bool" THEN Bool(x.v = "n")
                ELSE Value("tristate", CASE x.v = "y" -> "m" [] x.v = "m" -> "n" [] OTHER -> "y")
    IN IF deps_satisfied(opt, m.values) /\ x.ty \in {"bool", "tristate"}
       THEN SetOption(opts, m, opt.symbol, next) ELSE m

Parent(m) == [Top(m) EXCEPT !.current_menu = None]

-----------------------------------------------------------------------------
(* What somebody does at the menu *)

Words == {"", "HW_RYZEN", "General", "nothing"}
Typed == {"7", "0x7", "0", "'word'", "'two lines'", "word"}

\* run with --menu; bound: the menu is the first command of a behaviour.
OpenMenu(mode) ==
    /\ menu = None /\ commands = 0 /\ commands' = 1 /\ UNCHANGED schema
    /\ SchemaOk
    /\ LET values == Present(schema, config)
       IN IF values = None THEN Fail("unreadable") /\ UNCHANGED menu
          ELSE /\ menu' = Redraw(schema, NewMenu(mode, values))
               /\ UNCHANGED <<config, defconfig, artifacts, status, written, reduced, made>>

Rows == visible_rows(schema, menu)
Key(m) == /\ menu' = Redraw(schema, m)
          /\ UNCHANGED <<schema, config, defconfig, artifacts, status, written, reduced, made, commands>>
InTui == menu # None /\ menu.mode = "tui"
AtOption == menu.cursor < Len(Rows) /\ Rows[menu.cursor + 1].kind = "option"
Option == Rows[menu.cursor + 1].at

Move(delta) == InTui /\ Key(move_cursor(menu, Len(Rows), delta))
Home == InTui /\ Key(Top(menu))
End == InTui /\ Key([menu EXCEPT !.cursor = IF Rows = <<>> THEN 0 ELSE Len(Rows) - 1])

\* Left: back_or_reverse.
Left == InTui /\ Key(IF menu.current_menu # None THEN Parent(menu)
                     ELSE IF AtOption THEN reverse_option(schema, menu, Option) ELSE menu)

\* Right and Enter: menu_select of the row under the cursor.
Activate(raw) ==
    /\ InTui /\ menu.cursor < Len(Rows)
    /\ Key(CASE Rows[menu.cursor + 1].kind = "back" -> Parent(menu)
             [] Rows[menu.cursor + 1].kind = "category" ->
                   [Top(menu) EXCEPT !.current_menu = schema[Option].category]
             [] OTHER -> toggle_option(schema, menu, Option, raw))

\* Space, y, n and m toggle the option under the cursor, whatever their letter says.
Toggle(raw) == InTui /\ AtOption /\ Key(toggle_option(schema, menu, Option, raw))

Search(word) == InTui /\ Key([Parent(menu) EXCEPT !.search = word])
ClearSearch == InTui /\ Key([Top(menu) EXCEPT !.search = ""])

Save(generate, fails) ==
    /\ menu' = None /\ Commit(schema, menu.values, generate, fails)
    /\ UNCHANGED <<schema, commands>>
Discard == menu' = None /\ Fail("ok") /\ UNCHANGED <<schema, commands>>

SaveKey(generate, fails) == InTui /\ Save(generate, fails)

\* q and Escape: quit_or_back, which asks when something was changed.
Quit(answer, generate, fails) ==
    /\ InTui
    /\ IF menu.current_menu # None THEN Key(Parent(menu))
       ELSE IF menu.dirty /\ answer # "n" THEN Save(generate, fails) ELSE Discard

\* run_line_menu: a number toggles the option at that place of the list.
InLines == menu # None /\ menu.mode = "line"
LineToggle(i, raw) ==
    /\ InLines /\ i \in DOMAIN schema /\ option_visible(schema[i], menu.values)
    /\ Key([menu EXCEPT !.values = toggle_option(schema, menu, i, raw).values])
LineSave(generate, fails) == InLines /\ Save(generate, fails)
LineDiscard == InLines /\ Discard

-----------------------------------------------------------------------------
(* The instances *)

\* Options of config/MirageConfig.toml; a select points to an option before its own.
Shipped ==
    <<Table("ARCH_X86_64", "bool", "Architecture", Flag(TRUE), {}, {}, {}, None),
      Table("HW_FRAMEBUFFER", "bool", "Hardware", Flag(TRUE), {}, {}, {}, "hw-framebuffer"),
      Table("HW_PCI", "bool", "Hardware", Flag(FALSE), {}, {}, {}, "hw-pci"),
      Table("HW_AMD64", "bool", "Hardware", Flag(FALSE), {"ARCH_X86_64"}, {}, {}, "hw-amd64"),
      Table("HW_RYZEN", "bool", "Hardware", Flag(FALSE), {"ARCH_X86_64"}, {"HW_AMD64"}, {}, "hw-ryzen"),
      Table("HW_AMD_CHIPSET", "bool", "Hardware", Flag(FALSE), {"HW_RYZEN"}, {"HW_PCI"}, {"HW_RYZEN"},
            "hw-amd-chipset")>>

\* The types the tool is prepared for, with a chain of selects against the order and an
\* option that is shown only while one behind it is enabled.
Richer ==
    <<Table("ALPHA", "bool", "General", Flag(FALSE), {}, {}, {}, None),
      Table("TRI", "tristate", "General", [t |-> "string", v |-> "n"], {}, {"ALPHA"}, {}, "tri"),
      Table("NAME", "string", "Drivers", [t |-> "string", v |-> ""], {"ALPHA"}, {}, {"SIZE"}, None),
      Table("SIZE", "hex", "Drivers", [t |-> "int", v |-> "0"], {}, {"TRI"}, {}, "tri")>>

\* Schemas that parse or validate must refuse: a default of another type, a symbol twice,
\* a symbol nobody defines, selects in a circle.
Refused ==
    {<<Table("ALPHA", "bool", "General", [t |-> "string", v |-> "y"], {}, {}, {}, None)>>,
     <<Richer[1], Richer[1]>>,
     <<Table("ALPHA", "bool", "General", Flag(TRUE), {"BETA"}, {}, {}, None)>>,
     <<Table("ALPHA", "bool", "General", Flag(TRUE), {}, {"BETA"}, {}, None),
       Table("BETA", "bool", "General", Flag(FALSE), {}, {"ALPHA"}, {}, None)>>}

\* What somebody may put into the configuration file.
HandFiles ==
    {None, <<Line("unset", "TRI", "")>>, <<Line("set", "HW_AMD_CHIPSET", "y")>>, <<Line("junk", "", "")>>,
     <<Line("set", "HW_RYZEN", "1"), Line("unset", "HW_AMD64", "")>>,
     <<Line("set", "ALPHA", "y"), Line("set", "NAME", "'word'"), Line("set", "SIZE", "7")>>}
HandEdit(lines) ==
    /\ Command /\ config' = lines /\ written' = None /\ made' = FALSE
    /\ UNCHANGED <<defconfig, artifacts, status, reduced>>

Init ==
    /\ schema \in {Load(tables) : tables \in {Shipped, Richer} \cup Refused}
    /\ config \in HandFiles
    /\ defconfig = None /\ artifacts = NoArtifacts /\ menu = None /\ status = "ok"
    /\ written = None /\ reduced = None /\ made = FALSE /\ commands = 0

Next ==
    \/ BadSchema
    \/ \E lines \in HandFiles : HandEdit(lines)
    \/ \E e \in Endings : \/ Defconfig(e[1], e[2])
                          \/ Oldconfig(e[1], e[2])
                          \/ Check(e[1], e[2])
                          \/ Savedefconfig(e[1], e[2])
                          \/ SaveKey(e[1], e[2])
                          \/ LineSave(e[1], e[2])
                          \/ \E answer \in {"y", "n"} : Quit(answer, e[1], e[2])
    \/ \E mode \in {"tui", "line"} : OpenMenu(mode)
    \/ \E delta \in {-1, 1, -Body, Body} : Move(delta)
    \/ Home
    \/ End
    \/ Left
    \/ \E raw \in Typed : Activate(raw) \/ Toggle(raw) \/ \E i \in 1 .. 6 : LineToggle(i, raw)
    \/ \E word \in Words : Search(word)
    \/ ClearSearch
    \/ LineDiscard

Spec == Init /\ [][Next]_vars

-----------------------------------------------------------------------------
OneLine(values) == \A s \in DOMAIN values : values[s] # Value("string", "two lines")

\* What a command leaves in the files holds together, whatever somebody put into them, did
\* at the menu or had fail before. The selects always settle within the passes
\* resolve_selects allows itself. A configuration that was written has values of the right
\* types, every dependency met and every select applied, and reading it gives these values
\* back, unless a string with a line break tears its line apart. The minimal file of
\* --savedefconfig stands for the same values as the full one. Artifacts that were made
\* without an error are the ones of the configuration that is on disk.
FilesSound ==
    /\ status # "did not converge"
    /\ written # None =>
          /\ validate_values(schema, written)
          /\ SelectAll(schema, written, SelectPass(schema, written, {})) = written
          /\ OneLine(written) <=> read_config(schema, config) = written
    /\ reduced # None => (OneLine(reduced) <=> read_config(schema, defconfig) = reduced)
    /\ made /\ Parsed # None =>
          LET values == resolve_selects(schema, Parsed)
          IN /\ artifacts.generated.constants = values
             /\ artifacts.features = cargo_features(schema, values)
             /\ artifacts.flags = build_flags(values)

\* The row under the cursor exists and is one of the rows on the screen, whatever options
\* a change has shown or hidden and however many rows the terminal has, which need not be
\* the TUI_BODY_ROWS that scroll is kept for.
CursorShown ==
    menu # None /\ menu.mode = "tui" /\ Rows # <<>> =>
        \A body \in Heights : /\ menu.cursor \in render(menu, Len(Rows), body)
                              /\ Cardinality(render(menu, Len(Rows), body)) <= body

\* Values that were changed at the menu are not dropped without asking.
EditsAskedFor == menu # None /\ menu.mode = "tui" => (menu.edited => menu.dirty)

\* Saving changes a value that was chosen at the menu only where an enabled option
\* selects it.
SavesWhatWasChosen ==
    menu # None /\ menu' = None /\ written' # None /\ status' = "ok" =>
        \A s \in Symbols(schema) : written'[s] # menu.values[s] =>
            \E i \in DOMAIN schema : value_enabled(written', schema[i].symbol) /\ s \in schema[i].selects

\* The menu shows what it acts on, loses no change unasked and saves what was chosen.
MenuSound == [](CursorShown /\ EditsAskedFor) /\ [][SavesWhatWasChosen]_vars
=============================================================================
