\* Two calls with the same options, over files that may have changed.
SPECIFICATION Spec
CONSTANTS
  URLs <- MCURLs
  Paths <- MCPaths
  Dirs <- MCDirs
  Cwd = "/"
  DirOf <- MCDirOf
  Join <- MCJoin
  TemplateNames = {"app.yaml", "/app.yaml", "lib/db.yaml", "/lib/db.yaml", "env.yaml", "/env.yaml"}
  Worlds <- MCWorlds
  Templates <- MCTemplates
  Environments <- MCEnvironments
  MaxCalls = 2
INVARIANTS
  UploadIsWhole
  HalfDoneIsUsable
