---------------------------- MODULE MCStepReport ----------------------------
(* A run of two steps, with two packages, and four hooks that pacman reports with one      *)
(* wording.  An output that has begun within MaxLines is printed to its end.               *)
EXTENDS StepReport

Tool(t, w, of) == [t |-> t, w |-> w, of |-> of]

Missing == <<Tool("error", "mirror", "pkgA")>>
Installed(pkg) == <<Tool("proof", "installing", pkg)>>
HookFailed(hook) == <<Tool("error", "hook", hook)>>
ImageBuilt == <<Tool("proof", "image", "mkinitcpio")>>

\* A hook calls systemd, which refuses inside a container.
SystemdRefuses(hook) == <<Tool("refusal", "systemd", hook), Tool("other", "bus", hook)>>
LoadingModules == <<Tool("banner", "loading", "modules")>>

MCOutputs ==
    {Missing, Installed("pkgA"), Installed("pkgB"), <<Tool("warning", "mirror", "pkgA")>>,
     ImageBuilt, HookFailed("mkinitcpio"), HookFailed("fontconfig"),
     LoadingModules, LoadingModules \o SystemdRefuses("modules") \o HookFailed("modules"),
     LoadingModules \o SystemdRefuses("modules") \o HookFailed("modules")
                    \o HookFailed("fontconfig"),
     SystemdRefuses("devices") \o HookFailed("devices")}

Entry(match, tied, by, ends) ==
    [severity |-> "error", match |-> match, tied |-> tied, recoveredBy |-> by,
     endsOnLine |-> ends]

\* pacman-mirror-retrieval-recovered, pacman-hook-failed-mkinitcpio-recovered and
\* pacman-post-transaction-hook-container-systemd
MirrorEntry == Entry("mirror", TRUE, "installing", FALSE)
MkinitcpioEntry == Entry("hook", FALSE, "image", FALSE)
ModulesEntry == Entry("hook", FALSE, "loading", TRUE)

MCAllowlist == {MirrorEntry, MkinitcpioEntry, ModulesEntry}

Result(check, status) == [check |-> check, status |-> status]

MCQuoted ==
    {[t |-> "step", check |-> TRUE, status |-> "PASS"], [t |-> "rollup", n |-> 1]}

Single == {<<Result(TRUE, s)>> : s \in {"PASS", "FAIL", "SKIP", "INFRA"}}
          \cup {<<Result(FALSE, "SKIP")>>}

MCPlans == Single \cup {<<Result(TRUE, "PASS"), Result(TRUE, s)>> :
                            s \in {"FAIL", "SKIP", "INFRA"}}
                  \cup {<<Result(TRUE, "INFRA"), Result(TRUE, "FAIL")>>,
                        <<Result(FALSE, "SKIP"), Result(TRUE, "PASS")>>}

=============================================================================
