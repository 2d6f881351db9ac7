SPECIFICATION Spec
INVARIANTS BlocksSound FilesKeepData
