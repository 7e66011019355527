------------------------ MODULE MCEditorPersistence ------------------------
EXTENDS EditorPersistence

MCCommit == {"save", "rename"}
MCHolder == {"save", "rename", "reconcile"}
=============================================================================
