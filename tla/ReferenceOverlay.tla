-------------------------- MODULE ReferenceOverlay --------------------------
(***************************************************************************)
(* reference.py: what the coordinator adds to a Debian root itself.  A     *)
(* toolchain and the files that catalogue packages own are staged as a     *)
(* tree below usr, checked against the Debian root, copied into it and     *)
(* checked again.  A tree is a function from paths to nodes                *)
(*   [kind |-> "dir"], [kind |-> "file", body], [kind |-> "link", to],     *)
(*   [kind |-> "special"]                                                  *)
(* a path a sequence of names; a relative link's `to' is a path, an        *)
(* absolute one's begins with the name Root.                               *)
(***************************************************************************)
EXTENDS Naturals, SequencesExt

CONSTANTS
    Subtrees,   \* CATALOGUE_SUBTREES: package |-> the paths to keep of it
    Tools,      \* toolchain |-> [path, version] its compiler must report
    PcNames     \* the names that end in .pc

Root == "/"
Dir == [kind |-> "dir"]
NoToolchain == "none"

Parents(path) == {SubSeq(path, 1, n) : n \in 1..(Len(path) - 1)}
Below(path, top) == IsPrefix(top, path)
IsDir(tree, path) == path \in DOMAIN tree /\ tree[path].kind = "dir"
IsLink(tree, path) == path \in DOMAIN tree /\ tree[path].kind = "link"

\* os.path.normpath of a relative path: each ".." takes back one name, if any.
Normalized(path) ==
    FoldLeft(LAMBDA done, name :
                 IF name = ".." /\ done # <<>> /\ Last(done) # ".." THEN Front(done)
                 ELSE Append(done, name), <<>>, path)

\* One tree laid over another.
Over(new, tree) ==
    [p \in DOMAIN new \cup DOMAIN tree |-> IF p \in DOMAIN new THEN new[p] ELSE tree[p]]

-----------------------------------------------------------------------------
\* relative: inside usr, and spelled the one way PurePosixPath spells it.
relative(path) == path # <<>> /\ path[1] = "usr" /\ {".", ".."} \cap Range(path) = {}

parent_safe(tree, path) == \A p \in Parents(path) : p \in DOMAIN tree => IsDir(tree, p)

SafeLink(path, node) ==
    LET at == Normalized(Front(path) \o node.to)
    IN node.to[1] # Root /\ at # <<>> /\ at[1] = "usr" /\ ".." \notin Range(at)

\* place: one entry of a package; directories may be there already.
MayPlace(tree, path, node) ==
    /\ relative(path) /\ parent_safe(tree, path)
    /\ node.kind # "special"
    /\ IF node.kind = "dir" THEN path \in DOMAIN tree => IsDir(tree, path)
       ELSE path \notin DOMAIN tree
    /\ node.kind = "link" => SafeLink(path, node)

place(s, path, node) ==
    IF ~(s.ok /\ MayPlace(s.tree, path, node)) THEN [s EXCEPT !.ok = FALSE]
    ELSE [s EXCEPT !.tree = Over([p \in {path} |-> node], Over(@, [p \in Parents(path) |-> Dir]))]

-----------------------------------------------------------------------------
Kept(package, path) ==
    package \in DOMAIN Subtrees =>
        \E k \in Subtrees[package] : Below(path, k) \/ Below(k, path)

\* install_catalogue: the requested packages in turn, each with the entries it
\* owns in the order peipkg lists them; of some only a subtree is wanted.
Owned(package, e) == e.path # <<>> /\ e.path # <<"usr">> /\ Kept(package.name, e.path)

install_package(s, package) ==
    LET end == FoldLeft(LAMBDA t, e : IF Owned(package, e) THEN place(t, e.path, e.node) ELSE t,
                        s, package.files)
    IN [end EXCEPT !.ok = @ /\ \E e \in Range(package.files) : Owned(package, e)]

install_catalogue(tree, packages) ==
    FoldLeft(install_package, [ok |-> TRUE, tree |-> tree], packages)

\* Debian's pkg-config looks in usr/lib/pkgconfig, Peios packages in their own.
LIBDIR == <<"usr", "lib", "x86_64-linux-peios">>
PkgConfig == Append(LIBDIR, "pkgconfig")
CompatLink(pc, s) ==
    place(s, <<"usr", "lib", "pkgconfig", Last(pc)>>,
          [kind |-> "link", to |-> <<"..", "x86_64-linux-peios", "pkgconfig", Last(pc)>>])

\* build_overlay: the toolchain's own tree first, the catalogue over it.
build_overlay(staged, packages) ==
    LET filled == install_catalogue(staged, packages)
        pcs == {p \in DOMAIN filled.tree : Len(p) = Len(PkgConfig) + 1 /\ Below(p, PkgConfig)
                                            /\ Last(p) \in PcNames}
    IN IF packages = <<>> THEN [ok |-> TRUE, tree |-> staged]
       ELSE FoldSet(CompatLink, filled, pcs)

-----------------------------------------------------------------------------
ldso == <<"etc", "ld.so.conf.d", "pekit-reference.conf">>
ldcache == <<"etc", "ld.so.cache">>
Evidence == <<"usr", "share", "pekit-reference", "reference-prerequisites.json">>

\* Entries of one kind are taken to merge, as directories do.
COLLISION_CHECK_OfKinds(payload, debian) ==
    /\ \A path \in DOMAIN payload :
          /\ \A p \in Parents(path) : ~IsLink(debian, p)
          /\ path \in DOMAIN debian => payload[path].kind = debian[path].kind
    /\ ldso \notin DOMAIN debian

\* COLLISION_CHECK, run in the container before anything is copied.
COLLISION_CHECK(payload, debian) ==
    /\ \A path \in DOMAIN payload :
          /\ \A p \in Parents(path) : ~IsLink(debian, p)
          /\ path \in DOMAIN debian => payload[path].kind = "dir" /\ IsDir(debian, path)
    /\ ldso \notin DOMAIN debian

\* docker cp (external): every entry replaces what stands at its path, but for a
\* directory, which replaces nothing else; a copy may lose entries.
Copies(payload, debian) ==
    \A path \in DOMAIN payload \cap DOMAIN debian :
        payload[path].kind = "dir" => IsDir(debian, path)
Copied(payload, debian, lost) ==
    Over([path \in DOMAIN payload \ lost |-> payload[path]], debian)

\* RUNTIME_CHECK, run after it: files and links as they were staged, and the
\* toolchain's compiler of the version that was selected.
RUNTIME_CHECK(payload, toolchain, root) ==
    /\ \A path \in DOMAIN payload :
          payload[path].kind \in {"file", "link"}
              => path \in DOMAIN root /\ root[path] = payload[path]
    /\ toolchain # NoToolchain =>
          LET tool == Tools[toolchain]
          IN tool.path \in DOMAIN root /\ root[tool.path] = [kind |-> "file", body |-> tool.version]

\* install_container.  The ldconfig file and the evidence are created, never replaced;
\* ldconfig then writes its cache anew.
install_container(ask) ==
    LET overlay == build_overlay(ask.staged, ask.packages)
        root == Copied(overlay.tree, ask.debian, ask.lost)
        own == {ldso : path \in {p \in DOMAIN overlay.tree : Below(p, LIBDIR) /\ p # LIBDIR}}
    IN IF /\ overlay.ok
          /\ COLLISION_CHECK(overlay.tree, ask.debian) /\ Copies(overlay.tree, ask.debian)
          /\ RUNTIME_CHECK(overlay.tree, ask.toolchain, root)
          /\ Evidence \notin DOMAIN root
       THEN [ok |-> TRUE, payload |-> overlay.tree,
             root |-> Over([p \in own \cup {ldcache, Evidence} |-> [kind |-> "file", body |-> "coordinator"]],
                           root)]
       ELSE [ok |-> FALSE]

-----------------------------------------------------------------------------
\* A root that is handed on holds everything Debian installed, unchanged but for
\* the loader's cache, which is no package's and is there to be rebuilt, and
\* under its own path every file and link the requested packages own (of some,
\* the reviewed subtree); and no link added leads out of usr.  (COLLISION_CHECK's
\* comment: "no file or symlink replacement is authorized")
OverlayOnlyAdds(ask) ==
    LET result == install_container(ask)
    IN result.ok =>
         /\ \A p \in DOMAIN ask.debian \ {ldcache} : result.root[p] = ask.debian[p]
         /\ \A i \in DOMAIN ask.packages : \A e \in Range(ask.packages[i].files) :
              (Kept(ask.packages[i].name, e.path) /\ e.node.kind # "dir") =>
                  /\ e.path \in DOMAIN result.root /\ result.root[e.path] = e.node
                  /\ e.node.kind = "link" =>
                       Normalized(Front(e.path) \o e.node.to)[1] = "usr"
=============================================================================
