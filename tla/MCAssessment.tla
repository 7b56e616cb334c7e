---------------------------- MODULE MCAssessment ----------------------------
(* Small instances of Assessment for TLC: every kind of package with a     *)
(* release of no interest, and every kind of release with a few packages.  *)
EXTENDS Assessment

MCTarget == [downloads |-> 100000, age |-> 1000]

Package(known, listed, placeholder, hits, downloads, age, repository, advisories) ==
  [known |-> known, listed |-> listed, placeholder |-> placeholder, hits |-> hits,
   downloads |-> downloads, age |-> age, repository |-> repository,
   advisories |-> advisories]

Plain(hits, downloads, age, repository) ==
  Package(FALSE, TRUE, FALSE, hits, downloads, age, repository, "none")
Popular == Plain({}, 9000, 900, TRUE)
Nobody  == Package(FALSE, FALSE, FALSE, {}, 0, NoValue, FALSE, "none")

HitSets == {{}, {"typo"}, {"affix"}, {"homoglyph"}, {"typo", "affix"}}

MCPackages ==
  {Plain(h, d, a, r) : h \in HitSets, d \in {0, 50, 9000}, a \in {3, 900}, r \in {TRUE}}
    \cup {Plain({"typo"}, 50, 20, FALSE), Plain({}, 0, NoValue, FALSE)}
    \cup {[Nobody EXCEPT !.hits = h] : h \in HitSets}
    \cup {[Popular EXCEPT !.known = TRUE], [Popular EXCEPT !.placeholder = TRUE]}
    \cup {[Popular EXCEPT !.advisories = a] : a \in {"vulnerable", "malware"}}

Version(resolvable, manifest, gyp, imports, flags) ==
  [resolvable |-> resolvable, manifest |-> manifest, gyp |-> gyp, imports |-> imports,
   network |-> flags, env |-> flags]
V1     == Version(TRUE, "m1", FALSE, {}, FALSE)
Purge  == [V1 EXCEPT !.resolvable = FALSE]
Gyp    == Version(TRUE, "m1", TRUE, {"dns"}, TRUE)
Bigger == Version(TRUE, "m2", FALSE, {"dns", "http", "https", "child_process"}, TRUE)

Release(timeline, requested, script, regex, base64, injections) ==
  [timeline |-> timeline, requested |-> requested, script |-> script, regex |-> regex,
   ast |-> regex, base64 |-> base64, injections |-> injections]
Quiet == Release(<<V1>>, 0, 0, 0, "none", 0)

MCReleases ==
  {Release(<<V1, Purge, Gyp>>, r, 20, 50, "file", 0) : r \in {0, 1, 2, 3}}
    \cup {Release(<<V1, Bigger>>, 0, 45, 0, "script", 2), Release(<<V1, V1>>, 2, 100, 100, "none", 4),
          Release(<<V1, Purge, Purge, Purge, Gyp>>, 5, 0, 0, "none", 0),
          Release(<<Purge>>, 1, 0, 0, "none", 0)}

Admin(affix, corroborate, gating, native, files, llm) ==
  [affix |-> affix, corroborate |-> corroborate, shield_manifest_gating |-> gating,
   shield_native_trigger_check |-> native, package_file_scan |-> files, llm |-> llm]
Defaults == Admin(TRUE, TRUE, TRUE, TRUE, TRUE, FALSE)
MCAdmins ==
  {Defaults, [Defaults EXCEPT !.affix = FALSE, !.package_file_scan = FALSE, !.llm = TRUE],
   [Defaults EXCEPT !.corroborate = FALSE, !.shield_native_trigger_check = FALSE],
   [Defaults EXCEPT !.shield_manifest_gating = FALSE, !.llm = TRUE]}

Mature(weight) == [path |-> TRUE, domains |-> 20, weight |-> weight]
MCProjects == {Mature(NoValue), Mature(900), [Mature(0) EXCEPT !.domains = 5],
               [Mature(NoValue) EXCEPT !.path = FALSE]}

World(p, a, m, r, j) == [package |-> p, ai |-> a, admin |-> m, release |-> r, project |-> j]
MCWorlds ==
  {World(p, a, m, Quiet, j) : p \in MCPackages, a \in BOOLEAN, m \in MCAdmins,
                              j \in {Mature(NoValue), Mature(900)}}
    \cup {World(p, FALSE, m, r, j) : p \in {Popular, [Popular EXCEPT !.known = TRUE]},
                                     m \in MCAdmins, r \in MCReleases, j \in MCProjects}
=============================================================================
