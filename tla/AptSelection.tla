---------------------------- MODULE AptSelection ----------------------------
(***************************************************************************)
(* What a Debian root is asked to hold: the dependency lines of a target   *)
(* (prepare.py requests), the part of them the coordinator serves itself   *)
(* (reference.py selection and effective_requests), and the one APT        *)
(* transaction for the rest (prepare.py install_script).  A line is        *)
(* [name, clauses], clauses a set of [op, version], empty for "*";         *)
(* versions are numbers.  An APT world is [archive, base]: the versions    *)
(* the mirror offers of each name, and the one the image holds (0: none).  *)
(***************************************************************************)
EXTENDS Integers, SequencesExt

CONSTANT ReverseDns      \* the names CATALOGUE_NAME matches

NoToolchain == "none"
OPS == {"=", ">=", ">", "<=", "<"}

Compare(v, op, w) ==                              \* dpkg --compare-versions
    CASE op = "="  -> v = w
      [] op = ">=" -> v >= w
      [] op = ">"  -> v > w
      [] op = "<=" -> v <= w
      [] op = "<"  -> v < w

-----------------------------------------------------------------------------
\* The concrete requests, one per name, or an error.
requests(lines) ==
    [ok |-> \A l \in Range(lines) : \A c \in l.clauses : c.op \in OPS,
     deps |-> [n \in {l.name : l \in Range(lines)} |->
                  UNION {l.clauses : l \in {k \in Range(lines) : k.name = n}}]]

KERNEL_TOOLCHAIN_TARGETS == {"build-kunit", "build-kernel"}
KERNEL_TARGETS == KERNEL_TOOLCHAIN_TARGETS \cup
    {"build-upstream", "build-source", "build-headers", "build-debuginfo", "build-tools",
     "build-fwsig", "test-kunit", "test-modsig", "test-fwsig", "test-stratafs", "test-uapi",
     "gen-uapi", "test-mntns", "test-cores"}
TARGETS == {"build-vendor", "build-main", "test-main"}
RUST_FAMILIES == {"dev.peios.resolvd", "dev.peios.peiosutils"}
KERNEL_FAMILIES == {"dev.peios.kernel"}
TOOLCHAIN_REPLACES == {"cargo", "rustc", "rustfmt"}
RUNTIME_APT == {"binutils", "gcc", "libc6-dev", "python3", "pkgconf"}

\* A name with a reverse-DNS prefix is none of Debian's that the code names.
NamesApart == ReverseDns \cap (RUNTIME_APT \cup TOOLCHAIN_REPLACES) = {}

Reviewed(family, target) ==
    /\ family \in KERNEL_FAMILIES => target \in KERNEL_TARGETS
    /\ family \in RUST_FAMILIES => target \in TARGETS

toolchain_for(family, target) ==
    CASE family \in KERNEL_FAMILIES /\ target \in KERNEL_TOOLCHAIN_TARGETS -> "rust-1.83.0"
      [] family \in RUST_FAMILIES -> "rust-1.98.1"
      [] OTHER -> NoToolchain

split_catalogue(deps, index) ==
    LET named == DOMAIN deps \cap ReverseDns
    IN [ok |-> named \subseteq index, catalogue |-> named \cap index,
        apt |-> DOMAIN deps \ ReverseDns]

selection(family, target, deps, index) ==
    LET parts == split_catalogue(deps, index)
    IN [ok |-> parts.ok /\ Reviewed(family, target),
        overlay |-> toolchain_for(family, target) # NoToolchain \/ parts.catalogue # {},
        toolchain |-> toolchain_for(family, target),
        catalogue |-> parts.catalogue]

effective_requests(deps, selected, index) ==
    LET replaced == IF selected.toolchain = NoToolchain THEN {} ELSE TOOLCHAIN_REPLACES
        apt == split_catalogue(deps, index).apt
        names == (apt \ replaced) \cup RUNTIME_APT
    IN IF ~selected.overlay THEN [ok |-> TRUE, deps |-> deps]
       ELSE [ok |-> \A n \in apt \cap replaced : deps[n] = {},
             deps |-> [n \in names |-> IF n \in apt THEN deps[n] ELSE {}]]

-----------------------------------------------------------------------------
(* install_script: pins first, then one transaction, then assertions over  *)
(* what is installed in the end.                                           *)

Offered(world, n) == world.archive[n] \cup ({world.base[n]} \ {0})

\* Only what the mirror offers is pinned, as apt-cache madison lists it.
PriorityFromMadison(world, n, checks, v) ==
    CASE checks # {} /\ v \in world.archive[n] /\ (\A c \in checks : Compare(v, c.op, c.version)) -> 1001
      [] checks # {} /\ v \in world.archive[n] /\ (\E c \in checks : ~Compare(v, c.op, c.version)) -> -1
      [] checks = {} /\ v \in world.archive[n] -> 500
      [] OTHER -> 100

\* Of a constrained name every known version is pinned, the image's own
\* included; APT's own priorities stand for a name without constraint.
Priority(world, n, checks, v) ==
    CASE checks # {} /\ (\A c \in checks : Compare(v, c.op, c.version)) -> 1001
      [] checks # {} /\ (\E c \in checks : ~Compare(v, c.op, c.version)) -> -1
      [] checks = {} /\ v \in world.archive[n] -> 500
      [] OTHER -> 100

\* APT's policy: the highest priority, then the highest version; nothing below
\* zero, and nothing older than what is installed unless its priority is 1000 or more.
Candidates(world, n, checks) ==
    LET P(v) == Priority(world, n, checks, v)
        may == {v \in Offered(world, n) : P(v) >= 0 /\ (P(v) >= 1000 \/ v >= world.base[n])}
    IN {v \in may : \A w \in may : P(v) > P(w) \/ (P(v) = P(w) /\ v >= w)}

install_script(world, deps) ==
    LET final == [n \in DOMAIN deps |->
                     IF Candidates(world, n, deps[n]) = {} THEN world.base[n]
                     ELSE CHOOSE v \in Candidates(world, n, deps[n]) : TRUE]
    IN [ok |-> \A n \in DOMAIN deps :
                  /\ Candidates(world, n, deps[n]) # {}
                  /\ \A c \in deps[n] : Compare(final[n], c.op, c.version),
        final |-> final]

-----------------------------------------------------------------------------
\* acquire's use of all this for one target.
Plan(ask) ==
    LET asked == requests(ask.lines)
        selected == selection(ask.family, ask.target, asked.deps, ask.index)
        effective == effective_requests(asked.deps, selected, ask.index)
    IN [ok |-> asked.ok /\ selected.ok /\ effective.ok,
        selected |-> selected, apt |-> effective.deps]

Wanted(ask, n) == {l \in Range(ask.lines) : l.name = n}
Allowed(ask, world, n) ==
    {v \in Offered(world, n) :
        \A l \in Wanted(ask, n) : \A c \in l.clauses : Compare(v, c.op, c.version)}

\* Every line of a target is served, and by one source: APT under all the
\* clauses the lines state, the catalogue, or a pinned toolchain the recipe did
\* not constrain.  (split_catalogue, effective_requests)
EveryLineServedOnce(ask) ==
    LET plan == Plan(ask)
    IN plan.ok => \A l \in Range(ask.lines) :
         LET byApt == l.name \in DOMAIN plan.apt /\ l.clauses \subseteq plan.apt[l.name]
             byCatalogue == l.name \in plan.selected.catalogue
             byToolchain == /\ plan.selected.toolchain # NoToolchain /\ l.clauses = {}
                            /\ l.name \in TOOLCHAIN_REPLACES /\ l.name \notin DOMAIN plan.apt
             served == <<byApt, byCatalogue, byToolchain>>
         IN \E s \in 1..3 : \A other \in 1..3 : served[other] <=> other = s

\* The transaction succeeds exactly when each name has a version that all of
\* its lines allow, and installs the greatest such, be it older than the
\* image's own.  (install_script and README.md's account of it)
GreatestAllowedVersion(ask, world) ==
    LET plan == Plan(ask)
        result == install_script(world, plan.apt)
    IN plan.ok =>
         /\ result.ok <=> \A n \in DOMAIN plan.apt : Allowed(ask, world, n) # {}
         /\ result.ok => \A n \in DOMAIN plan.apt :
              /\ result.final[n] \in Allowed(ask, world, n)
              /\ \A v \in Allowed(ask, world, n) : v <= result.final[n]

RequestsServed(ask, world) == EveryLineServedOnce(ask) /\ GreatestAllowedVersion(ask, world)
=============================================================================
