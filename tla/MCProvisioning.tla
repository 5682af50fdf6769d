--------------------------- MODULE MCProvisioning ---------------------------
(***************************************************************************)
(* What operators do, as hosts to start from and the choice of commands    *)
(* one after the other.  A session is as long as it takes to see the       *)
(* recovery from a fault in its first command.                             *)
(***************************************************************************)
EXTENDS Provisioning

MCcanonicalBNPolicies == <<"bn-publisher", "bn-health">>
MCobsoleteBNPolicies == <<"bn-status-in">>

On(hosts, plan) == [on |-> hosts, plan |-> plan]

ClusterSessions ==
    {On({"fresh"}, <<{"install"}, {"uninstall", "install"}, {"install"}>>),
     On({"older"}, <<{"migrate", "install"}, {"install", "migrate"}>>),
     On({"ready"}, <<{"agentInstall"}, {"uninstall"}, {"install"}>>),
     On({"serving"}, <<{"uninstall"}, {"selfRemove", "install"}, {"selfInstall", "selfRemove"}>>)}

BlockNodeSessions ==
    {On({"fresh"}, <<{"setup"}, {"setup", "bnInstall", "uninstall"}>>),
     On({"ready"}, <<{"bnInstall", "bnPlain"}, {"bnUninstall"}, {"bnInstall"}>>),
     On({"serving"}, <<{"bnReconfigure", "bnUnshape", "bnForce"},
                       {"bnReconfigure", "bnUnshape", "bnPlain"}>>),
     On({"earlier"}, <<{"bnUpgrade", "bnMove", "bnReset", "bnPurge"}, {"bnUpgrade", "bnReset", "bnPurge"}>>),
     On({"serving"}, <<{"bnUninstall", "bnPurge"}, {"bnInstall", "bnPlain", "bnForce", "daemonRemove"}>>)}

OperatorSessions ==
    {On({"ready"}, <<{"fwCreate"}, {"fwRule", "fwReapply", "fwDelete"},
                     {"fwCreate", "fwSet", "fwRule", "bnPlain"}>>),
     On({"ready"}, <<{"shapeDevice"}, {"shapeClass", "shapeRemove"},
                     {"shapeSet", "shapeDelete", "bnInstall"}>>),
     On({"tuned"}, <<{"fwRule", "fwSet", "fwAdd", "fwDelete", "fwDeleteRule", "fwForce",
                      "shapeSet", "shapeIngress", "shapeClass", "shapeDevice", "shapeDelete"},
                     {"bnKeep", "bnKeepOff", "bnUpgrade", "fwReapply", "fwAdd"}>>)}

DaemonSessions ==
    {On({"ready"}, <<{"daemonInstall"}, {"daemonRemove", "daemonStart", "daemonStop", "daemonInstall"},
                     {"daemonInstall", "daemonLocal", "daemonCheck"}>>)}

AgentSessions ==
    {On({"ready", "serving"}, <<{"alloyInstall"}, {"alloyInstall", "alloyRemove"}, {"alloyInstall"}>>),
     On({"ready"}, <<{"esoInstall"}, {"esoInstall", "esoSecret", "esoRemove"}, {"esoInstall"}>>),
     On({"ready"}, <<{"agentInstall"}, {"agentInstall", "agentRemove"}, {"agentInstall"}>>),
     On({"ready"}, <<{"teleport"}, {"teleport", "teleportRemove"}, {"teleport"}>>)}

MCSessions == ClusterSessions \cup BlockNodeSessions \cup OperatorSessions
              \cup DaemonSessions \cup AgentSessions
=============================================================================
