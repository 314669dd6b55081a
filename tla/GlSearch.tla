------------------------------ MODULE GlSearch ------------------------------
(***************************************************************************)
(* Which object the GL shim of src/gl-fwd.c forwards to: the bundle's      *)
(* dispatcher, the host's library of the same name, or none.  The host is  *)
(* searched directory by directory, in the order of ANYLINUX_GL_HOST_DIR,  *)
(* /etc/ld.so.conf (LdConf) and a fixed list, once for a vendor library    *)
(* and once for the name itself.                                           *)
(***************************************************************************)
EXTENDS LdConf

CONSTANTS Hosts, NoDir

IsHost(h) ==
  /\ IsTree(h.conf)
  /\ h.want \in {"none", "host", "bundled"}
  /\ h.env \in Seq(Dirs) /\ h.fixed \in Seq(Dirs)
  /\ h.bundled \in {"absent", "loads", "broken"}
  /\ h.bundle_vendor \in BOOLEAN /\ h.vendor_dir \in BOOLEAN
  /\ h.soname \in [Dirs -> {"absent", "loads", "broken"}] /\ h.vendor \in [Dirs -> BOOLEAN]

ASSUME HostsAssumption == \A h \in Hosts : IsHost(h)
ASSUME NoDirAssumption == NoDir \notin Dirs

VARIABLES
  host,   \* want, env, fixed, bundled, bundle_vendor, vendor_dir, and by
          \* directory: soname ("absent", "loads", "broken") and vendor
  phase,
  pass,   \* what glfwd_each_dir is looking for: "vendor" or "soname"
  part, pos, found,
  use_bundled, target

vars == <<tree, walkVars, host, phase, pass, part, pos, found, use_bundled, target>>

Init ==
  /\ \E h \in Hosts : host = h /\ tree = h.conf
  /\ NoWalk
  /\ phase = "start" /\ pass = "vendor" /\ part = "env" /\ pos = 1 /\ found = NoDir
  /\ use_bundled = FALSE /\ target = <<"unset">>

have_bundled == host.bundled # "absent"

\* glfwd_try_vendor and glfwd_try_soname: the callbacks.
Hit(d) == IF pass = "vendor" THEN host.vendor[d] ELSE host.soname[d] # "absent"

Begin(p) ==
  /\ phase' = "search" /\ pass' = p /\ part' = "env" /\ pos' = 1 /\ found' = NoDir

\* The search is over: the vendor's answer decides which object is tried first.
Finish(d) ==
  /\ found' = d
  /\ IF pass = "vendor"
       THEN /\ use_bundled' = (d # NoDir \/ host.want = "bundled")
            /\ phase' = "bundled"
       ELSE /\ phase' = IF d # NoDir THEN "host" ELSE "last"
            /\ UNCHANGED use_bundled
  /\ UNCHANGED <<pass, part, pos>>

------------------------------------------------------------------------------
\* Variant of Start: only the host is asked for a vendor.
StartAskingTheHost ==
  /\ phase = "start"
  /\ IF host.want # "host" /\ have_bundled
       THEN IF host.vendor_dir
              THEN use_bundled' = TRUE /\ phase' = "bundled" /\ UNCHANGED <<pass, part, pos, found>>
              ELSE Begin("vendor") /\ UNCHANGED use_bundled
       ELSE /\ use_bundled' = (host.want = "bundled")
            /\ phase' = "bundled" /\ UNCHANGED <<pass, part, pos, found>>
  /\ UNCHANGED <<tree, walkVars, host, target>>

\* glfwd_open_target's questions: does the bundle have a vendor of its own
\* (glfwd_bundle_has_vendor), and if not, the host (glfwd_host_has_vendor)?
Start ==
  /\ phase = "start"
  /\ IF host.want # "host" /\ have_bundled /\ ~host.bundle_vendor /\ ~host.vendor_dir
       THEN Begin("vendor") /\ UNCHANGED use_bundled
       ELSE /\ use_bundled' = \/ host.want = "bundled"
                              \/ host.want # "host" /\ have_bundled
            /\ phase' = "bundled" /\ UNCHANGED <<pass, part, pos, found>>
  /\ UNCHANGED <<tree, walkVars, host, target>>

\* The directories of ANYLINUX_GL_HOST_DIR.
EnvDir ==
  /\ phase = "search" /\ part = "env"
  /\ IF pos > Len(host.env)
       THEN part' = "conf" /\ StartWalk /\ UNCHANGED <<phase, pass, pos, found, use_bundled>>
     ELSE /\ IF Hit(host.env[pos])
               THEN Finish(host.env[pos])
               ELSE pos' = pos + 1 /\ UNCHANGED <<phase, pass, part, found, use_bundled>>
          /\ UNCHANGED walkVars
  /\ UNCHANGED <<tree, host, target>>

\* The directories the host itself names.
ConfDir ==
  /\ phase = "search" /\ part = "conf" /\ frames # <<>>
  /\ WalkStep({d \in Dirs : Hit(d)})
  /\ UNCHANGED <<host, phase, pass, part, pos, found, use_bundled, target>>

ConfEnds ==
  /\ phase = "search" /\ part = "conf" /\ frames = <<>>
  /\ IF stopped
       THEN Finish(seen[Len(seen)])
       ELSE /\ part' = "fixed" /\ pos' = 1
            /\ UNCHANGED <<phase, pass, found, use_bundled>>
  /\ UNCHANGED <<tree, walkVars, host, target>>

\* glfwd_host_dirs.
FixedDir ==
  /\ phase = "search" /\ part = "fixed"
  /\ IF pos > Len(host.fixed) THEN Finish(NoDir)
     ELSE IF Hit(host.fixed[pos]) THEN Finish(host.fixed[pos])
     ELSE pos' = pos + 1 /\ UNCHANGED <<phase, pass, part, found, use_bundled>>
  /\ UNCHANGED <<tree, walkVars, host, target>>

\* The bundle's dispatcher, when a vendor or the user speaks for it.
OpenBundled ==
  /\ phase = "bundled"
  /\ IF use_bundled /\ host.bundled = "loads"
       THEN /\ target' = <<"bundled">> /\ phase' = "done"
            /\ UNCHANGED <<pass, part, pos, found>>
       ELSE /\ IF host.want = "bundled"
                 THEN phase' = "last" /\ UNCHANGED <<pass, part, pos, found>>
                 ELSE Begin("soname")
            /\ UNCHANGED target
  /\ UNCHANGED <<tree, walkVars, host, use_bundled>>

OpenHost ==
  /\ phase = "host"
  /\ IF host.soname[found] = "loads"
       THEN target' = <<"host", found>> /\ phase' = "done"
       ELSE phase' = "last" /\ UNCHANGED target
  /\ UNCHANGED <<tree, walkVars, host, pass, part, pos, found, use_bundled>>

\* "nothing better on this host".
OpenLast ==
  /\ phase = "last"
  /\ target' = IF ~use_bundled /\ host.bundled = "loads" THEN <<"bundled">> ELSE <<"nothing">>
  /\ phase' = "done"
  /\ UNCHANGED <<tree, walkVars, host, pass, part, pos, found, use_bundled>>

Next ==
  \/ Start \/ EnvDir \/ ConfDir \/ ConfEnds \/ FixedDir
  \/ OpenBundled \/ OpenHost \/ OpenLast

Spec == Init /\ [][Next]_vars

------------------------------------------------------------------------------
\* "The bundle wins when it has one": a bundle with its own vendor library, or
\* beside a host that has one, is what the shim forwards to, the host only
\* where nothing can serve the bundle's dispatcher, and the bundle again where
\* the host cannot be opened; for every host and however the walk of its
\* directories goes, unless the walk has warned that it dropped some.  The
\* host's directories are the ones its conf files say less what the walk passes
\* over in silence (Given): a vendor in a directory lost that way is not found.
\* The first file of the name decides for the host: one that is there and does
\* not load, of the other class say, hides a later one.
TargetIsBest ==
  LET order == host.env \o Given \o host.fixed
      carriers == {i \in DOMAIN order : host.soname[order[i]] # "absent"}
      first == order[Min(carriers)]
      vendor == \/ host.bundle_vendor \/ host.vendor_dir
                \/ \E d \in ToSet(order) : host.vendor[d]
      served == host.want = "bundled" \/ (host.want = "none" /\ vendor)
      certain == host.bundled = "loads" /\
                   (host.want = "bundled" \/
                      (host.want = "none" /\ (host.bundle_vendor \/ host.vendor_dir)))
  IN  phase = "done" =>
        \/ warned /\ ~certain
        \/ target = IF host.bundled = "loads" /\ served THEN <<"bundled">>
                    ELSE IF /\ host.want # "bundled" /\ carriers # {}
                            /\ host.soname[first] = "loads"
                      THEN <<"host", first>>
                    ELSE IF host.bundled = "loads" THEN <<"bundled">>
                    ELSE <<"nothing">>
==============================================================================
